---- MODULE Spec2Model ----
(***************************************************************************)
(* Transactional domain-event coordinator of clean-modularmonolith-go:     *)
(* handler registry, buffering event bus (Publish / Flush with a depth     *)
(* guard), transaction context propagation, the read-write transaction     *)
(* scope and the delete-user command with its order-cancelling handler.    *)
(***************************************************************************)
EXTENDS Integers, Sequences, FiniteSets, TLC

(* ------------------------------ bounds -------------------------------- *)
MaxSubs == 2
MaxPublish == 2
MaxFlush == 1
MaxCfgDepth == 1
MaxOrders == 2
MaxCmdSubs == 1
MaxAttempts == 2
MaxNested == 1
MaxRetrySubs == 2
MaxAggEvents == 3
MaxLate == 1
MaxProcs == 3
MaxTxId == 2
MaxReads == 2
MaxFnCalls == 3
MaxDrains == 2
MaxDispSubs == 2
MaxDispEvents == 2
MaxDispFlush == 2
MaxItems == 4
MaxEbCalls == 1
MaxEbFrames == 10
MaxPubSubs == 1

(* ------------------------- program constants -------------------------- *)
DefaultMaxDepth == 10
CmdMaxDepth == 10
FindOffset == 0
FindLimit == 1000

UserDeletedEventType == "users.UserDeleted"
OrderSubmittedEventType == "orders.OrderSubmitted"
EventTypes == {UserDeletedEventType, OrderSubmittedEventType}

Nil == [kind |-> "nil"]
ErrEventProcessingDepthExceeded == [kind |-> "depthExceeded"]
HandlerErr == [kind |-> "handlerErr"]

(* fmt.Errorf("handler failed for event %s: %w", type, err) *)
WrapHandlerFailed(evType, err) == [kind |-> "handlerFailed", evType |-> evType, cause |-> err]

(* Handlers the bus is exercised with: one that returns nil, one that      *)
(* returns an error, and one that publishes a new event of a given type on *)
(* the bus that is flushing it and returns nil.                            *)
NoopHandler == [kind |-> "noop", pub |-> "none"]
FailHandler == [kind |-> "fail", pub |-> "none"]
PubHandler(t) == [kind |-> "pub", pub |-> t]
BusHandlers == {NoopHandler, FailHandler} \cup {PubHandler(t) : t \in EventTypes}

(* orders' UserDeletedHandler, subscribed by the orders module *)
UserDeletedHandler == [kind |-> "cancelOrders", pub |-> "none"]
CmdHandlers == {UserDeletedHandler, NoopHandler, FailHandler}

ErrNestedTransaction == [kind |-> "nestedTransaction"]
ErrUserNotFound == [kind |-> "userNotFound"]
ErrOrderAlreadyCancelled == [kind |-> "orderAlreadyCancelled"]
ErrOrderCompleted == [kind |-> "orderCompleted"]
ErrOrderNotDraft == [kind |-> "orderNotDraft"]
ErrOrderNotPending == [kind |-> "orderNotPending"]
ErrOrderNotConfirmed == [kind |-> "orderNotConfirmed"]
ErrOrderEmpty == [kind |-> "orderEmpty"]
ErrItemNotFound == [kind |-> "itemNotFound"]
ErrInvalidQuantity == [kind |-> "invalidQuantity"]
BufferWriteErr == [kind |-> "bufferWriteFailed"]
UnexpectedEventType == [kind |-> "unexpectedEventType"]
(* the store's transient conflict signal (codes.Aborted) *)
AbortedErr == [kind |-> "aborted"]
(* an error of the commit that is not the abort signal *)
CommitErr == [kind |-> "commitFailed"]
(* what client.ReadWriteTransaction's commit hands back: nil or an error *)
CommitOutcomes == {Nil, CommitErr}

(* fmt.Errorf("<msg>: %w", err) *)
Wrap(msg, err) == [kind |-> "wrapped", msg |-> msg, cause |-> err]

(* the client's test for retrying: the error, unwrapped, is the abort signal *)
RECURSIVE IsAborted(_)
IsAborted(err) ==
    IF err.kind = "aborted" THEN TRUE
    ELSE IF err.kind \in {"wrapped", "handlerFailed"} THEN IsAborted(err.cause)
    ELSE FALSE

Users == {"u1", "u2"}
CmdUserID == "u1"
OrderIds == 1..MaxOrders

StatusActive == "active"
StatusInactive == "inactive"
StatusDeleted == "deleted"
Absent == "absent"

StatusDraft == "draft"
StatusPending == "pending"
StatusConfirmed == "confirmed"
StatusCompleted == "completed"
StatusCancelled == "cancelled"
OrderStatuses == {StatusDraft, StatusPending, StatusConfirmed, StatusCompleted, StatusCancelled}

VARIABLES
    registry,     \* EventHandlerRegistry.handlers: event type -> handlers in subscription order
    phase,        \* "startup" (subscriptions) | "run" (bus constructed)
    cfgDepth,     \* the maxDepth argument NewTransactional was called with
    maxDepth,     \* TransactionalEventBus.maxDepth
    pending,      \* TransactionalEventBus.pending
    depth,        \* Flush's local depth counter
    cur,          \* Flush's local event (the one taken from the queue)
    curHandlers,  \* Flush's local handlers slice
    hidx,         \* position of Flush's range loop over handlers
    flushPc,      \* "idle" | "loop" | "handlers" | "handler" (b.mu released, handler running) |
                  \* "relock" (handler returned) | "done" | "handlerLocked" | "blocked" (waiting for b.mu)
    flushResult,  \* value returned by the last Flush
    herr,         \* Flush's local err: what the handler just called returned
    flushNo,      \* number of Flush calls made on this bus
    flushStart,   \* events pending when the current Flush was called
    nextSeq,      \* publication counter (identity of the next event)
    trace,        \* history: events taken from the queue and handler invocations
    db0,          \* the committed rows the run started from
    db,           \* committed rows: [user: status of CmdUserID, orders: id -> [owner, status]]
    txBuf,        \* mutations buffered in the open read-write transaction
    nextTx,       \* identity of the next transaction handle the client hands out
    ctx,          \* context of the running code: [rw, ro, tx] transaction handles (0 = none)
    cmdPc,        \* position in DeleteUserHandler.Handle / the read-only query
    user,         \* the loaded User aggregate: [status, domainEvents]
    fnErr,        \* error returned by the Execute closure
    execResult,   \* [done, err] of the top-level Execute
    attempt,      \* number of times Execute invoked fn
    orderSaves,   \* order Save calls made in this attempt
    fault,        \* injected storage fault: [userSave, orderSaveAt, queryAbortIn (attempt, 0 = never)]
    nested,       \* Execute calls made inside fn: [kind, before, err, returned, fnCalls, ...]
    regMu,        \* EventHandlerRegistry.mu: [writer: goroutine or 0, readers: set of goroutines]
    procs,        \* goroutines calling the registry: id -> [op, pc, type, handler, local, result, seen]
    reads,        \* reads made so far: context lookups [op, ctx, got], repository reads [op, ctx, saved, got]
    roTxs,        \* read-only transactions opened by Execute: [tx, closes, returned, err]
    withResult,   \* a call of ExecuteWithResult: [pc, result, calls, lastValue, lastErr, scopeErr, ret]
    bmu,          \* TransactionalEventBus.mu with goroutines calling the bus: "unlocked" | "locked" | "fatal"
    order,        \* an Order aggregate and the last method called on it: [status, items, op, err, before]
    eb,           \* the dispatch-on-Publish EventBus: [handlers, calls (Publish calls), frames (processEvent invocations)]
    gos           \* goroutines calling the bus: id -> stack of Flush frames [pc, depth, event, handlers, hidx, herr, result]

busVars == <<registry, phase, cfgDepth, maxDepth, pending, depth, cur, curHandlers, hidx,
             flushPc, flushResult, herr, flushNo, flushStart, nextSeq, trace>>

txVars == <<db0, db, txBuf, nextTx, ctx, cmdPc, user, fnErr, execResult, attempt,
            orderSaves, fault, nested>>

regVars == <<regMu, procs>>

readVars == <<reads>>

resVars == <<roTxs, withResult>>

dispVars == <<bmu, gos>>

ordVars == <<order>>

ebVars == <<eb>>

vars == <<busVars, txVars, regVars, readVars, resVars, dispVars, ordVars, ebVars>>

NoEvent == [seq |-> 0, type |-> "none", userID |-> "none"]
NoUser == [status |-> "none", domainEvents |-> <<>>]

(* ExecuteWithResult: the zero value of T, values and errors of fn and scope *)
ZeroValue == 0
FnValues == {ZeroValue, 1, 42}
ErrFn == [kind |-> "fnError"]
ErrTx == [kind |-> "transactionError"]

(* part_021:74-85  NewOrder: a draft order without items, no method called yet *)
NewOrder == [status |-> StatusDraft, items |-> <<>>, op |-> "new", err |-> Nil,
             before |-> [status |-> StatusDraft, items |-> <<>>]]

(* part_030:142-148  NewEventBus: no handlers; no Publish call made yet *)
NewEventBus == [handlers |-> [t \in EventTypes |-> <<>>], calls |-> <<>>, frames |-> {}]

(* the goroutines that share one bus; none is inside a call of the bus *)
Goroutines == {1, 2}
NoGoroutines == [g \in Goroutines |-> <<>>]

NoCall == [pc |-> "idle", result |-> ZeroValue, calls |-> 0, lastValue |-> ZeroValue,
           lastErr |-> Nil, scopeErr |-> Nil, ret |-> [result |-> ZeroValue, err |-> Nil]]

(* ------------------------------ registry ------------------------------ *)
NewEventHandlerRegistry == [t \in EventTypes |-> <<>>]

RegistrySubscribe(reg, eventType, handler) ==
    [reg EXCEPT ![eventType] = Append(reg[eventType], handler)]

RECURSIVE Reverse(_)
Reverse(q) == IF q = <<>> THEN <<>> ELSE Append(Reverse(Tail(q)), Head(q))

HandlersForReversed(reg, eventType) == Reverse(reg[eventType])

(* the copy HandlersFor makes under the read lock *)
HandlersFor(reg, eventType) == reg[eventType]

(* sync.RWMutex of the registry *)
NewMu == [writer |-> 0, readers |-> {}]

CanLockAlways(m) == TRUE

(* Lock() goes through when no goroutine holds the lock in either mode *)
CanLock(m) == m.writer = 0 /\ m.readers = {}

(* RLock() goes through when no goroutine holds the write lock *)
CanRLock(m) == m.writer = 0

SubsCount(reg) == Len(reg[UserDeletedEventType]) + Len(reg[OrderSubmittedEventType])

(* -------------------------------- bus --------------------------------- *)
NewTransactional(cfg) == IF cfg <= 0 THEN DefaultMaxDepth ELSE cfg

(* The pending queue of the bus an attempt of fn works with, given the     *)
(* queue of the bus the previous attempt left behind: the bus is made      *)
(* inside the closure, so it is a new, empty one.                          *)
AttemptPendingShared(prev) == prev

AttemptPending(prev) == <<>>

EnqueueFront(q, e) == <<e>> \o q

Enqueue(q, e) == Append(q, e)

(* TransactionalEventBus.Publish: the queue it leaves and the error it returns *)
BusPublishSync(q, e) == [pending |-> q, err |-> Nil]

BusPublish(q, e) == [pending |-> Enqueue(q, e), err |-> Nil]

TakeLast(q) == [event |-> q[Len(q)], rest |-> SubSeq(q, 1, Len(q) - 1)]

TakeFirstKeep(q) == [event |-> q[1], rest |-> q]

TakeFirst(q) == [event |-> q[1], rest |-> Tail(q)]

(* Head of Flush's loop: leave with nil on an empty queue, leave with the   *)
(* depth error when the counter reached the maximum, else take an event.   *)
FlushGuardSilent(q, d, max) ==
    IF Len(q) = 0 THEN "return_nil"
    ELSE IF d >= max THEN "return_nil"
    ELSE "take"

FlushGuardOffByOne(q, d, max) ==
    IF Len(q) = 0 THEN "return_nil"
    ELSE IF d > max THEN "return_depth"
    ELSE "take"

FlushGuard(q, d, max) ==
    IF Len(q) = 0 THEN "return_nil"
    ELSE IF d >= max THEN "return_depth"
    ELSE "take"

(* The slice Flush's range loop iterates while it delivers an event: the    *)
(* copy HandlersFor returned when the event was taken, whatever the         *)
(* registry holds by now                                                    *)
LoopHandlersLive(snapshot, reg, eventType) == reg[eventType]

LoopHandlers(snapshot, reg, eventType) == snapshot

(* b.mu as Flush leaves it for the time a handler runs (b.mu.Unlock()       *)
(* before handler.Handle), given its state at that point                   *)
UnlockForHandlerSkip(m) == m

UnlockForHandler(m) == "unlocked"

(* What Flush does with a handler's return value *)
HandleOutcomeIgnoreErr(err, evType, h) ==
    [pc |-> "handlers", result |-> Nil, hidx |-> h + 1]

HandleOutcome(err, evType, h) ==
    IF err # Nil
    THEN [pc |-> "done", result |-> WrapHandlerFailed(evType, err), hidx |-> h]
    ELSE [pc |-> "handlers", result |-> Nil, hidx |-> h + 1]

(* ------------------------ transaction context ------------------------ *)
(* a context holds one value per key: readWriteTxKey, readOnlyTxKey and the *)
(* txKey of the scope in transaction.go                                     *)
EmptyCtx == [rw |-> 0, ro |-> 0, tx |-> 0]
NilCtx == [rw |-> -1, ro |-> -1, tx |-> -1]

ReadWriteTxFromContext(c) == [tx |-> c.rw, ok |-> c.rw > 0]

readOnlyTxFromContext(c) == [tx |-> c.ro, ok |-> c.ro > 0]

ReadTransactionFromContextReadOnlyFirst(c) ==
    IF readOnlyTxFromContext(c).ok THEN [kind |-> "ro", tx |-> c.ro, ok |-> TRUE]
    ELSE IF ReadWriteTxFromContext(c).ok THEN [kind |-> "rw", tx |-> c.rw, ok |-> TRUE]
    ELSE [kind |-> "none", tx |-> 0, ok |-> FALSE]

ReadTransactionFromContext(c) ==
    IF ReadWriteTxFromContext(c).ok THEN [kind |-> "rw", tx |-> c.rw, ok |-> TRUE]
    ELSE IF readOnlyTxFromContext(c).ok THEN [kind |-> "ro", tx |-> c.ro, ok |-> TRUE]
    ELSE [kind |-> "none", tx |-> 0, ok |-> FALSE]

withReadWriteTxOwnKind(c, tx) ==
    IF ReadWriteTxFromContext(c).ok
    THEN [ctx |-> NilCtx, err |-> ErrNestedTransaction]
    ELSE [ctx |-> [c EXCEPT !.rw = tx], err |-> Nil]

withReadWriteTx(c, tx) ==
    IF ReadTransactionFromContext(c).ok
    THEN [ctx |-> NilCtx, err |-> ErrNestedTransaction]
    ELSE [ctx |-> [c EXCEPT !.rw = tx], err |-> Nil]

withReadOnlyTx(c, tx) ==
    IF ReadTransactionFromContext(c).ok
    THEN [ctx |-> NilCtx, err |-> ErrNestedTransaction]
    ELSE [ctx |-> [c EXCEPT !.ro = tx], err |-> Nil]

(* context.go: withTx embeds without looking at what the context carries *)
withTx(c, tx) == [c EXCEPT !.tx = tx]

TxFromContext(c) == [tx |-> c.tx, ok |-> c.tx > 0]

(* ------------------------- transaction scopes ------------------------- *)
(* Execute called with context c, the client handing out transaction tx,   *)
(* and an fn that returns fnResult: whether fn was invoked, the context it  *)
(* got and what Execute returns. An error that is not an abort is returned  *)
(* by the client as it is.                                                  *)
(* closes: the Close calls made on the read-only transaction it opened      *)
ReadWriteTransactionScopeExecute(c, tx, fnResult) ==
    LET r == withReadWriteTx(c, tx) IN
    IF r.err # Nil
    THEN [embedErr |-> r.err, embedCtx |-> r.ctx, fnCalls |-> 0, fnCtx |-> NilCtx,
          result |-> r.err, closes |-> 0]
    ELSE [embedErr |-> Nil, embedCtx |-> r.ctx, fnCalls |-> 1, fnCtx |-> r.ctx,
          result |-> fnResult, closes |-> 0]

CloseOnSuccessOnly(closes, result) == IF result = Nil THEN closes + 1 ELSE closes

(* part_034:62  defer tx.Close(): runs when Execute returns, whatever it returns *)
DeferredClose(closes, result) == closes + 1

ReadOnlyTransactionScopeExecute(c, tx, fnResult) ==
    LET r == withReadOnlyTx(c, tx) IN
    IF r.err # Nil
    THEN [embedErr |-> r.err, embedCtx |-> r.ctx, fnCalls |-> 0, fnCtx |-> NilCtx,
          result |-> r.err, closes |-> DeferredClose(0, r.err)]
    ELSE [embedErr |-> Nil, embedCtx |-> r.ctx, fnCalls |-> 1, fnCtx |-> r.ctx,
          result |-> fnResult, closes |-> DeferredClose(0, fnResult)]

TransactionScopeExecute(c, tx, fnResult) ==
    LET txCtx == withTx(c, tx) IN
    [embedErr |-> Nil, embedCtx |-> txCtx, fnCalls |-> 1, fnCtx |-> txCtx, result |-> fnResult,
     closes |-> 0]

ScopeKinds == {"rw", "ro", "tx"}

ScopeExecute(kind, c, tx, fnResult) ==
    IF kind = "rw" THEN ReadWriteTransactionScopeExecute(c, tx, fnResult)
    ELSE IF kind = "ro" THEN ReadOnlyTransactionScopeExecute(c, tx, fnResult)
    ELSE TransactionScopeExecute(c, tx, fnResult)

(* ------------------------------ storage ------------------------------- *)
UserMutation(id, status) == [table |-> "Users", key |-> id, status |-> status]
OrderMutation(id, status) == [table |-> "Orders", key |-> id, status |-> status]

ApplyMutation(database, m) ==
    IF m.table = "Users"
    THEN [database EXCEPT !.user = m.status]
    ELSE [database EXCEPT !.orders[m.key].status = m.status]

(* the mutations of ms applied in order: every row ends as its last         *)
(* mutation in ms leaves it, and rows without a mutation stay as they are   *)
ApplyAll(database, ms) ==
    LET userMs == {i \in DOMAIN ms : ms[i].table = "Users"}
        orderMs(o) == {i \in DOMAIN ms : ms[i].table = "Orders" /\ ms[i].key = o}
        last(S) == CHOOSE i \in S : \A j \in S : j <= i
    IN [user |-> IF userMs = {} THEN database.user
                 ELSE ApplyMutation(database, ms[last(userMs)]).user,
        orders |-> [o \in DOMAIN database.orders |->
                      IF orderMs(o) = {} THEN database.orders[o]
                      ELSE ApplyMutation(database, ms[last(orderMs(o))]).orders[o]]]

(* client.ReadWriteTransaction: the committed rows after the closure        *)
(* returned nil and the commit went through ...                             *)
CommitWrites(database, buffered) == ApplyAll(database, buffered)

RollbackWritesApplied(database, buffered) == ApplyAll(database, buffered)

(* ... and after the closure returned an error: the buffered mutations are  *)
(* dropped with the transaction                                            *)
RollbackWrites(database, buffered) == database

(* users SpannerRepository.FindByID: a row read; mutations buffered in the  *)
(* transaction are not applied before commit, so it reads committed rows.  *)
UserFindByID(c, database, id) ==
    IF database.user = Absent
    THEN [user |-> NoUser, err |-> ErrUserNotFound]
    ELSE [user |-> [status |-> database.user, domainEvents |-> <<>>], err |-> Nil]

UserSaveIgnoresTx(c, id, u) ==
    IF fault.userSave
    THEN [err |-> Wrap("failed to save user", BufferWriteErr), buffered |-> <<>>, direct |-> <<>>]
    ELSE [err |-> Nil, buffered |-> <<>>, direct |-> <<UserMutation(id, u.status)>>]

(* users SpannerRepository.Save *)
UserSave(c, id, u) ==
    IF ReadWriteTxFromContext(c).ok
    THEN IF fault.userSave
         THEN [err |-> BufferWriteErr, buffered |-> <<>>, direct |-> <<>>]
         ELSE [err |-> Nil, buffered |-> <<UserMutation(id, u.status)>>, direct |-> <<>>]
    ELSE IF fault.userSave
         THEN [err |-> Wrap("failed to save user", BufferWriteErr), buffered |-> <<>>, direct |-> <<>>]
         ELSE [err |-> Nil, buffered |-> <<>>, direct |-> <<UserMutation(id, u.status)>>]

OrderSaveIgnoresTx(c, o, n) ==
    IF fault.orderSaveAt = n
    THEN [err |-> Wrap("failed to save order", BufferWriteErr), buffered |-> <<>>, direct |-> <<>>]
    ELSE [err |-> Nil, buffered |-> <<>>, direct |-> <<OrderMutation(o.id, o.status)>>]

(* orders SpannerRepository.Save; n is the number of this Save call *)
OrderSave(c, o, n) ==
    IF ReadWriteTxFromContext(c).ok
    THEN IF fault.orderSaveAt = n
         THEN [err |-> BufferWriteErr, buffered |-> <<>>, direct |-> <<>>]
         ELSE [err |-> Nil, buffered |-> <<OrderMutation(o.id, o.status)>>, direct |-> <<>>]
    ELSE IF fault.orderSaveAt = n
         THEN [err |-> Wrap("failed to save order", BufferWriteErr), buffered |-> <<>>, direct |-> <<>>]
         ELSE [err |-> Nil, buffered |-> <<>>, direct |-> <<OrderMutation(o.id, o.status)>>]

(* orders SpannerRepository.FindByUserRef: WHERE UserID = @userID ORDER BY  *)
(* CreatedAt DESC LIMIT @limit OFFSET @offset; order n was created n-th.    *)
RECURSIVE OrdersDescBetween(_, _, _, _)
OrdersDescBetween(database, userRef, lo, hi) ==
    IF lo > hi THEN <<>>
    ELSE IF lo = hi
    THEN (IF database.orders[lo].owner = userRef
          THEN <<[id |-> lo, owner |-> userRef, status |-> database.orders[lo].status]>>
          ELSE <<>>)
    ELSE LET mid == (lo + hi) \div 2 IN
         OrdersDescBetween(database, userRef, mid + 1, hi)
            \o OrdersDescBetween(database, userRef, lo, mid)

OrdersOfDesc(database, userRef, n) == OrdersDescBetween(database, userRef, 1, n)

FindByUserRef(c, database, userRef, offset, limit) ==
    LET all == OrdersOfDesc(database, userRef, Len(database.orders))
        hi  == IF offset + limit < Len(all) THEN offset + limit ELSE Len(all)
    IN IF fault.queryAbortIn >= 1 /\ fault.queryAbortIn = attempt
       THEN [orders |-> <<>>, err |-> Wrap("failed to count orders", AbortedErr)]
       ELSE [orders |-> SubSeq(all, offset + 1, hi), err |-> Nil]

(* ------------------------------- domain ------------------------------- *)
(* AggregateRoot: the aggregate's domainEvents slice *)
AddDomainEventTwice(a, event) ==
    [a EXCEPT !.domainEvents = Append(Append(a.domainEvents, event), event)]

AddDomainEvent(a, event) == [a EXCEPT !.domainEvents = Append(a.domainEvents, event)]

DomainEvents(a) == a.domainEvents

ClearDomainEventsKeep(a) == a

ClearDomainEvents(a) == [a EXCEPT !.domainEvents = <<>>]

(* event.go:34-41  NewBaseEvent: the type string is stored as it is given;  *)
(* a type name is the sequence of its characters, and the aggregate ID is   *)
(* carried in the field the events of this model use for it                 *)
NewBaseEvent(eventType, aggregateID) == [type |-> eventType, userID |-> aggregateID]

NewUserDeletedEvent(id) == [type |-> UserDeletedEventType, userID |-> id]

UserDeleteKeepStatus(u, id) ==
    AddDomainEvent([u EXCEPT !.status = u.status], NewUserDeletedEvent(id))

UserDelete(u, id) ==
    AddDomainEvent([u EXCEPT !.status = StatusDeleted], NewUserDeletedEvent(id))

OrderCancelFromAny(o) ==
    IF o.status = StatusCancelled THEN [order |-> o, err |-> ErrOrderAlreadyCancelled]
    ELSE [order |-> [o EXCEPT !.status = StatusCancelled], err |-> Nil]

OrderCancel(o) ==
    IF o.status = StatusCancelled THEN [order |-> o, err |-> ErrOrderAlreadyCancelled]
    ELSE IF o.status = StatusCompleted THEN [order |-> o, err |-> ErrOrderCompleted]
    ELSE [order |-> [o EXCEPT !.status = StatusCancelled], err |-> Nil]

(* the quantities AddItem is called with *)
Quantities == {0, 1}

(* the product ids AddItem and RemoveItem are called with *)
Products == {"P", "Q"}

(* o.items is a slice of items [productID, quantity]; the positions of the *)
(* items whose ProductID is productID                                      *)
ItemIndexes(items, productID) == {i \in DOMAIN items : items[i].productID = productID}

(* the sum of the quantities of the items *)
RECURSIVE TotalQuantity(_)
TotalQuantity(items) ==
    IF items = <<>> THEN 0 ELSE Head(items).quantity + TotalQuantity(Tail(items))

(* part_021:119-146  AddItem: an item of the same product gets the quantity *)
(* added, else a new item is appended                                       *)
OrderAddItem(o, productID, quantity) ==
    IF o.status # StatusDraft THEN [order |-> o, err |-> ErrOrderNotDraft]
    ELSE IF quantity <= 0 THEN [order |-> o, err |-> ErrInvalidQuantity]
    ELSE IF ItemIndexes(o.items, productID) # {}
    THEN LET i == CHOOSE k \in ItemIndexes(o.items, productID) :
                      \A j \in ItemIndexes(o.items, productID) : k <= j
         IN [order |-> [o EXCEPT !.items[i].quantity = @ + quantity], err |-> Nil]
    ELSE [order |-> [o EXCEPT !.items = Append(@, [productID |-> productID,
                                                   quantity |-> quantity])],
          err |-> Nil]

(* part_021:149-164  RemoveItem: the first item of the product is cut out   *)
(* of the slice, ErrItemNotFound when the order holds none                  *)
OrderRemoveItem(o, productID) ==
    IF o.status # StatusDraft THEN [order |-> o, err |-> ErrOrderNotDraft]
    ELSE IF ItemIndexes(o.items, productID) # {}
    THEN LET i == CHOOSE k \in ItemIndexes(o.items, productID) :
                      \A j \in ItemIndexes(o.items, productID) : k <= j
         IN [order |-> [o EXCEPT !.items = SubSeq(@, 1, i - 1) \o SubSeq(@, i + 1, Len(@))],
             err |-> Nil]
    ELSE [order |-> o, err |-> ErrItemNotFound]

OrderSubmit(o) ==
    IF o.status # StatusDraft THEN [order |-> o, err |-> ErrOrderNotDraft]
    ELSE IF Len(o.items) = 0 THEN [order |-> o, err |-> ErrOrderEmpty]
    ELSE [order |-> [o EXCEPT !.status = StatusPending], err |-> Nil]

OrderConfirm(o) ==
    IF o.status # StatusPending THEN [order |-> o, err |-> ErrOrderNotPending]
    ELSE [order |-> [o EXCEPT !.status = StatusConfirmed], err |-> Nil]

OrderComplete(o) ==
    IF o.status # StatusConfirmed THEN [order |-> o, err |-> ErrOrderNotConfirmed]
    ELSE [order |-> [o EXCEPT !.status = StatusCompleted], err |-> Nil]

OrderMethods == {"AddItem", "RemoveItem", "Submit", "Confirm", "Cancel", "Complete"}

OrderApply(op, o, productID, quantity) ==
    IF op = "AddItem" THEN OrderAddItem(o, productID, quantity)
    ELSE IF op = "RemoveItem" THEN OrderRemoveItem(o, productID)
    ELSE IF op = "Submit" THEN OrderSubmit(o)
    ELSE IF op = "Confirm" THEN OrderConfirm(o)
    ELSE IF op = "Cancel" THEN OrderCancel(o)
    ELSE OrderComplete(o)

(* ------------------------------ handlers ------------------------------ *)
ShouldCancelAlways(o) == TRUE

(* user_deleted.go:51-54  only orders in draft or pending status are cancelled *)
ShouldCancel(o) == o.status = StatusDraft \/ o.status = StatusPending

(* the range loop of orders' UserDeletedHandler.Handle: the iterations over *)
(* the first half of os, then, unless one of them returned, over the rest   *)
RECURSIVE CancelOrders(_, _, _, _, _)
CancelOrders(os, c, saves, buffered, direct) ==
    IF os = <<>>
    THEN [err |-> Nil, buffered |-> buffered, direct |-> direct, saves |-> saves]
    ELSE IF Len(os) = 1
    THEN LET o == Head(os) IN
         IF ~ShouldCancel(o)
         THEN [err |-> Nil, buffered |-> buffered, direct |-> direct, saves |-> saves]
         ELSE LET cr == OrderCancel(o) IN
              IF cr.err # Nil
              THEN [err |-> Nil, buffered |-> buffered, direct |-> direct, saves |-> saves]
              ELSE LET sr == OrderSave(c, cr.order, saves + 1) IN
                   IF sr.err # Nil
                   THEN [err |-> Wrap("saving canceled order", sr.err),
                         buffered |-> buffered, direct |-> direct, saves |-> saves + 1]
                   ELSE [err |-> Nil, buffered |-> buffered \o sr.buffered,
                         direct |-> direct \o sr.direct, saves |-> saves + 1]
    ELSE LET mid == Len(os) \div 2
             first == CancelOrders(SubSeq(os, 1, mid), c, saves, buffered, direct)
         IN IF first.err # Nil
            THEN first
            ELSE CancelOrders(SubSeq(os, mid + 1, Len(os)), c, first.saves,
                              first.buffered, first.direct)

HandleUserDeleted(ev, c, database, saves) ==
    IF ev.type # UserDeletedEventType
    THEN [err |-> UnexpectedEventType, pubs |-> <<>>, buffered |-> <<>>,
          direct |-> <<>>, saves |-> saves]
    ELSE LET found == FindByUserRef(c, database, ev.userID, FindOffset, FindLimit)
             r == CancelOrders(found.orders, c, saves, <<>>, <<>>)
         IN IF found.err # Nil
            THEN [err |-> Wrap("finding user orders", found.err), pubs |-> <<>>,
                  buffered |-> <<>>, direct |-> <<>>, saves |-> saves]
            ELSE [err |-> r.err, pubs |-> <<>>, buffered |-> r.buffered,
                  direct |-> r.direct, saves |-> r.saves]

(* Outcome of handler.Handle(ctx, event) *)
Handle(h, ev, c, database, saves) ==
    IF h.kind = "cancelOrders" THEN HandleUserDeleted(ev, c, database, saves)
    ELSE [err  |-> IF h.kind = "fail" THEN HandlerErr ELSE Nil,
          pubs |-> IF h.kind = "pub" THEN <<[type |-> h.pub, userID |-> ev.userID]>> ELSE <<>>,
          buffered |-> <<>>, direct |-> <<>>, saves |-> saves]

(* Publish called once per event of evs, in order; seq is the identity the  *)
(* first of them gets                                                      *)
RECURSIVE PublishAll(_, _, _)
PublishAll(q, evs, seq) ==
    IF evs = <<>> THEN [pending |-> q, err |-> Nil]
    ELSE LET r == BusPublish(q, [seq |-> seq, type |-> Head(evs).type,
                                 userID |-> Head(evs).userID])
         IN IF r.err # Nil THEN r ELSE PublishAll(r.pending, Tail(evs), seq + 1)

Published(evs, n) == [i \in 1..Len(evs) |-> [seq |-> n + i - 1, type |-> evs[i].type]]

(* ----------------------------- actions -------------------------------- *)
Subscribe(t, h, max) ==
    /\ phase = "startup"
    /\ SubsCount(registry) < max
    /\ registry' = RegistrySubscribe(registry, t, h)
    /\ UNCHANGED <<phase, cfgDepth, maxDepth, pending, depth, cur, curHandlers, hidx,
                   flushPc, flushResult, herr, flushNo, flushStart, nextSeq, trace>>
    /\ UNCHANGED txVars
    /\ UNCHANGED <<regVars, readVars, resVars, dispVars, ordVars, ebVars>>

Construct(cfg) ==
    /\ phase = "startup"
    /\ phase' = "run"
    /\ cfgDepth' = cfg
    /\ maxDepth' = NewTransactional(cfg)
    /\ pending' = <<>>
    /\ UNCHANGED <<registry, depth, cur, curHandlers, hidx,
                   flushPc, flushResult, herr, flushNo, flushStart, nextSeq, trace>>
    /\ UNCHANGED txVars
    /\ UNCHANGED <<regVars, readVars, resVars, dispVars, ordVars, ebVars>>

(* sync.Mutex: Lock() goes through on an unlocked mutex; Unlock() of a      *)
(* mutex that is not locked is a fatal error of the runtime                 *)
MutexCanLock(m) == m = "unlocked"

MutexUnlock(m) == IF m = "locked" THEN "unlocked" ELSE "fatal"

(* b.mu: Flush locks it on entry and its deferred Unlock runs on return;    *)
(* Publish holds it only for its own append                                *)
mu == IF flushPc \in {"loop", "handlers", "done", "handlerLocked", "blocked"}
      THEN "locked" ELSE "unlocked"

Publish(t) ==
    /\ phase = "run"
    /\ MutexCanLock(mu)
    /\ nextSeq <= MaxPublish
    /\ LET r == BusPublish(pending, [seq |-> nextSeq, type |-> t, userID |-> CmdUserID]) IN
       /\ pending' = r.pending
       /\ fnErr' = r.err
    /\ nextSeq' = nextSeq + 1
    /\ UNCHANGED <<registry, phase, cfgDepth, maxDepth, depth, cur, curHandlers, hidx,
                   flushPc, flushResult, herr, flushNo, flushStart, trace>>
    /\ UNCHANGED <<db0, db, txBuf, nextTx, ctx, cmdPc, user, execResult, attempt,
                   orderSaves, fault, nested>>
    /\ UNCHANGED <<regVars, readVars, resVars, dispVars, ordVars, ebVars>>

(* entry of Flush: lock taken, depth := 0 *)
FlushEnter ==
    /\ flushPc = "idle"
    /\ flushNo' = flushNo + 1
    /\ flushStart' = {pending[i].seq : i \in DOMAIN pending}
    /\ depth' = 0
    /\ flushPc' = "loop"
    /\ flushResult' = Nil
    /\ cur' = NoEvent
    /\ curHandlers' = <<>>
    /\ hidx' = 1
    /\ UNCHANGED <<registry, phase, cfgDepth, maxDepth, pending, herr, nextSeq, trace>>
    /\ UNCHANGED <<regVars, readVars, resVars, dispVars, ordVars, ebVars>>

FlushCall ==
    /\ phase = "run"
    /\ flushNo < MaxFlush
    /\ FlushEnter
    /\ UNCHANGED txVars

FlushLoop ==
    /\ flushPc = "loop"
    /\ IF FlushGuard(pending, depth, maxDepth) = "return_nil"
       THEN /\ flushPc' = "done"
            /\ flushResult' = Nil
            /\ UNCHANGED <<pending, cur, curHandlers, hidx, trace>>
       ELSE IF FlushGuard(pending, depth, maxDepth) = "return_depth"
       THEN /\ flushPc' = "done"
            /\ flushResult' = ErrEventProcessingDepthExceeded
            /\ UNCHANGED <<pending, cur, curHandlers, hidx, trace>>
       ELSE LET t == TakeFirst(pending) IN
            /\ cur' = t.event
            /\ pending' = t.rest
            /\ curHandlers' = HandlersFor(registry, t.event.type)
            /\ hidx' = 1
            /\ flushPc' = "handlers"
            /\ flushResult' = flushResult
            /\ trace' = Append(trace, [op |-> "take", f |-> flushNo, ev |-> t.event.seq,
                                       type |-> t.event.type, h |-> 0, err |-> FALSE,
                                       pubs |-> <<>>,
                                       handlers |-> HandlersFor(registry, t.event.type)])
    /\ UNCHANGED <<registry, phase, cfgDepth, maxDepth, depth, herr, flushNo, flushStart, nextSeq>>
    /\ UNCHANGED txVars
    /\ UNCHANGED <<regVars, readVars, resVars, dispVars, ordVars, ebVars>>

(* part_030:77-79  the range loop has a handler left: b.mu.Unlock()         *)
FlushUnlock ==
    /\ flushPc = "handlers"
    /\ hidx <= Len(LoopHandlers(curHandlers, registry, cur.type))
    /\ flushPc' = IF UnlockForHandler(mu) = "unlocked" THEN "handler" ELSE "handlerLocked"
    /\ UNCHANGED <<registry, phase, cfgDepth, maxDepth, pending, depth, cur, curHandlers, hidx,
                   flushResult, herr, flushNo, flushStart, nextSeq, trace>>
    /\ UNCHANGED txVars
    /\ UNCHANGED <<regVars, readVars, resVars, dispVars, ordVars, ebVars>>

(* part_030:80  err := handler.Handle(ctx, event), run while b.mu is free:  *)
(* the handler's Publish calls append to pending                           *)
FlushHandle ==
    /\ flushPc \in {"handler", "handlerLocked"}
    /\ LET out == Handle(LoopHandlers(curHandlers, registry, cur.type)[hidx], cur, ctx, db,
                         orderSaves)
           n   == Len(out.pubs)
       IN IF n > 0 /\ mu = "locked"
          THEN \* the handler's Publish waits for the lock its own Flush holds
               /\ flushPc' = "blocked"
               /\ UNCHANGED <<pending, nextSeq, trace, herr, txBuf, db, orderSaves>>
          ELSE /\ pending' = PublishAll(pending, out.pubs, nextSeq).pending
               /\ nextSeq' = nextSeq + n
               /\ trace' = Append(trace, [op |-> "call", f |-> flushNo, ev |-> cur.seq,
                                          type |-> cur.type, h |-> hidx,
                                          handler |-> LoopHandlers(curHandlers, registry,
                                                                    cur.type)[hidx],
                                          err |-> out.err # Nil,
                                          pubs |-> Published(out.pubs, nextSeq)])
               /\ flushPc' = "relock"
               /\ herr' = out.err
               /\ txBuf' = txBuf \o out.buffered
               /\ db' = ApplyAll(db, out.direct)
               /\ orderSaves' = out.saves
    /\ UNCHANGED <<db0, nextTx, ctx, cmdPc, user, fnErr, execResult, attempt, fault, nested>>
    /\ UNCHANGED <<registry, phase, cfgDepth, maxDepth, depth, cur, curHandlers, hidx,
                   flushResult, flushNo, flushStart>>
    /\ UNCHANGED <<regVars, readVars, resVars, dispVars, ordVars, ebVars>>

(* part_030:81-85  b.mu.Lock() after the handler, then err is looked at:    *)
(* an error ends Flush, nil moves the range loop on                        *)
FlushRelock ==
    /\ flushPc = "relock"
    /\ LET o == HandleOutcome(herr, cur.type, hidx) IN
       /\ flushPc' = o.pc
       /\ flushResult' = o.result
       /\ hidx' = o.hidx
    /\ herr' = Nil
    /\ UNCHANGED <<registry, phase, cfgDepth, maxDepth, pending, depth, cur, curHandlers,
                   flushNo, flushStart, nextSeq, trace>>
    /\ UNCHANGED txVars
    /\ UNCHANGED <<regVars, readVars, resVars, dispVars, ordVars, ebVars>>

FlushNextEvent ==
    /\ flushPc = "handlers"
    /\ hidx > Len(LoopHandlers(curHandlers, registry, cur.type))
    /\ depth' = depth + 1
    /\ flushPc' = "loop"
    /\ UNCHANGED <<registry, phase, cfgDepth, maxDepth, pending, cur, curHandlers, hidx,
                   flushResult, herr, flushNo, flushStart, nextSeq, trace>>
    /\ UNCHANGED txVars
    /\ UNCHANGED <<regVars, readVars, resVars, dispVars, ordVars, ebVars>>

FlushReturn ==
    /\ flushPc = "done"
    /\ flushPc' = "idle"
    /\ UNCHANGED <<registry, phase, cfgDepth, maxDepth, pending, depth, cur, curHandlers, hidx,
                   flushResult, herr, flushNo, flushStart, nextSeq, trace>>
    /\ UNCHANGED txVars
    /\ UNCHANGED <<regVars, readVars, resVars, dispVars, ordVars, ebVars>>

(* ---------------- transaction scope and delete-user command ----------- *)
StartupDone ==
    /\ phase = "startup"
    /\ phase' = "run"
    /\ UNCHANGED <<registry, cfgDepth, maxDepth, pending, depth, cur, curHandlers, hidx,
                   flushPc, flushResult, herr, flushNo, flushStart, nextSeq, trace>>
    /\ UNCHANGED txVars
    /\ UNCHANGED <<regVars, readVars, resVars, dispVars, ordVars, ebVars>>

(* ReadWriteTransactionScope.Execute: the client opens a transaction and    *)
(* calls the closure, which embeds the handle and invokes fn                *)
ExecuteBegin ==
    /\ phase = "run"
    /\ cmdPc = "idle"
    /\ LET r == withReadWriteTx(ctx, nextTx) IN
       IF r.err # Nil
       THEN /\ execResult' = [done |-> TRUE, err |-> r.err]
            /\ cmdPc' = "done"
            /\ UNCHANGED <<ctx, attempt>>
       ELSE /\ ctx' = r.ctx
            /\ attempt' = 1
            /\ cmdPc' = "fn"
            /\ UNCHANGED execResult
    /\ nextTx' = nextTx + 1
    /\ txBuf' = <<>>
    /\ UNCHANGED <<db0, db, user, fnErr, orderSaves, fault, nested>>
    /\ UNCHANGED busVars
    /\ UNCHANGED <<regVars, readVars, resVars, dispVars, ordVars, ebVars>>

(* delete_user.go:47  eventBus := eventbus.NewTransactional(registry, 10) *)
FnStart ==
    /\ cmdPc = "fn"
    /\ cfgDepth' = CmdMaxDepth
    /\ maxDepth' = NewTransactional(CmdMaxDepth)
    /\ pending' = AttemptPending(pending)
    /\ flushPc' = "idle"
    /\ orderSaves' = 0
    /\ user' = NoUser
    /\ fnErr' = Nil
    /\ cmdPc' = "load"
    /\ trace' = Append(trace, [op |-> "attempt", f |-> flushNo + 1, ev |-> nextSeq,
                               type |-> "none", h |-> 0, err |-> FALSE, pubs |-> <<>>])
    /\ UNCHANGED <<registry, phase, depth, cur, curHandlers, hidx, flushResult, herr, flushNo,
                   flushStart, nextSeq>>
    /\ UNCHANGED <<db0, db, txBuf, nextTx, ctx, execResult, attempt, fault, nested>>
    /\ UNCHANGED <<regVars, readVars, resVars, dispVars, ordVars, ebVars>>

StepOutcomeContinue(msg, err, next) ==
    [pc |-> next, err |-> IF err # Nil THEN Wrap(msg, err) ELSE Nil]

(* delete_user.go:51-62  if err != nil { return fmt.Errorf("<msg>: %w", err) } *)
(* after a step of the closure: the closure returns the wrapped error, or   *)
(* goes on to the next step                                                 *)
StepOutcome(msg, err, next) ==
    IF err # Nil THEN [pc |-> "return", err |-> Wrap(msg, err)]
    ELSE [pc |-> next, err |-> Nil]

CmdLoad ==
    /\ cmdPc = "load"
    /\ LET r == UserFindByID(ctx, db, CmdUserID)
           o == StepOutcome("finding user", r.err, "delete") IN
       /\ fnErr' = o.err
       /\ cmdPc' = o.pc
       /\ user' = IF r.err # Nil THEN user ELSE r.user
    /\ UNCHANGED <<db0, db, txBuf, nextTx, ctx, execResult, attempt, orderSaves, fault, nested>>
    /\ UNCHANGED busVars
    /\ UNCHANGED <<regVars, readVars, resVars, dispVars, ordVars, ebVars>>

CmdDelete ==
    /\ cmdPc = "delete"
    /\ user' = UserDelete(user, CmdUserID)
    /\ cmdPc' = "save"
    /\ UNCHANGED <<db0, db, txBuf, nextTx, ctx, fnErr, execResult, attempt, orderSaves, fault, nested>>
    /\ UNCHANGED busVars
    /\ UNCHANGED <<regVars, readVars, resVars, dispVars, ordVars, ebVars>>

CmdSave ==
    /\ cmdPc = "save"
    /\ LET r == UserSave(ctx, CmdUserID, user)
           o == StepOutcome("saving user", r.err, "publish") IN
       /\ fnErr' = o.err
       /\ cmdPc' = o.pc
       /\ txBuf' = txBuf \o r.buffered
       /\ db' = ApplyAll(db, r.direct)
    /\ UNCHANGED <<db0, nextTx, ctx, user, execResult, attempt, orderSaves, fault, nested>>
    /\ UNCHANGED busVars
    /\ UNCHANGED <<regVars, readVars, resVars, dispVars, ordVars, ebVars>>

(* delete_user.go:66-71  Publish every domain event, then ClearDomainEvents *)
CmdPublish ==
    /\ cmdPc = "publish"
    /\ LET r == PublishAll(pending, DomainEvents(user), nextSeq) IN
       /\ pending' = r.pending
       /\ nextSeq' = nextSeq + (Len(r.pending) - Len(pending))
       /\ IF r.err # Nil
          THEN /\ fnErr' = Wrap("publishing event", r.err)
               /\ cmdPc' = "return"
               /\ user' = user
          ELSE /\ fnErr' = fnErr
               /\ cmdPc' = "flush"
               /\ user' = ClearDomainEvents(user)
    /\ UNCHANGED <<registry, phase, cfgDepth, maxDepth, depth, cur, curHandlers, hidx,
                   flushPc, flushResult, herr, flushNo, flushStart, trace>>
    /\ UNCHANGED <<db0, db, txBuf, nextTx, ctx, execResult, attempt, orderSaves, fault, nested>>
    /\ UNCHANGED <<regVars, readVars, resVars, dispVars, ordVars, ebVars>>

FlushOutcomeIgnoreDepth(result) ==
    IF result # Nil /\ result # ErrEventProcessingDepthExceeded
    THEN Wrap("flushing events", result)
    ELSE Nil

(* delete_user.go:73-79  what the closure returns once Flush has returned *)
FlushOutcome(result) == IF result # Nil THEN Wrap("flushing events", result) ELSE Nil

CmdFlush ==
    /\ cmdPc = "flush"
    /\ FlushEnter
    /\ cmdPc' = "wait"
    /\ UNCHANGED <<db0, db, txBuf, nextTx, ctx, user, fnErr, execResult, attempt, orderSaves,
                   fault, nested>>

CmdAfterFlush ==
    /\ cmdPc = "wait"
    /\ flushPc = "done"
    /\ flushPc' = "idle"
    /\ fnErr' = FlushOutcome(flushResult)
    /\ cmdPc' = "return"
    /\ UNCHANGED <<registry, phase, cfgDepth, maxDepth, pending, depth, cur, curHandlers, hidx,
                   flushResult, herr, flushNo, flushStart, nextSeq, trace>>
    /\ UNCHANGED <<db0, db, txBuf, nextTx, ctx, user, execResult, attempt, orderSaves, fault, nested>>
    /\ UNCHANGED <<regVars, readVars, resVars, dispVars, ordVars, ebVars>>

(* client.ReadWriteTransaction after the closure returned an error *)
TxRollback ==
    /\ cmdPc = "return"
    /\ fnErr # Nil
    /\ db' = RollbackWrites(db, txBuf)
    /\ txBuf' = <<>>
    /\ execResult' = [done |-> TRUE, err |-> fnErr]
    /\ ctx' = EmptyCtx
    /\ cmdPc' = "done"
    /\ UNCHANGED <<db0, nextTx, user, fnErr, attempt, orderSaves, fault, nested>>
    /\ UNCHANGED busVars
    /\ UNCHANGED <<regVars, readVars, resVars, dispVars, ordVars, ebVars>>

(* client.ReadWriteTransaction after the closure returned nil: the client *)
(* commits. The commit goes through and Execute returns nil, or it fails    *)
(* with an error that is not the abort signal: nothing is written and       *)
(* Execute passes the error on.                                             *)
TxCommit ==
    /\ cmdPc = "return"
    /\ fnErr = Nil
    /\ \E cerr \in CommitOutcomes :
          /\ db' = IF cerr = Nil THEN CommitWrites(db, txBuf) ELSE RollbackWrites(db, txBuf)
          /\ execResult' = [done |-> TRUE, err |-> cerr]
    /\ txBuf' = <<>>
    /\ ctx' = EmptyCtx
    /\ cmdPc' = "done"
    /\ UNCHANGED <<db0, nextTx, user, fnErr, attempt, orderSaves, fault, nested>>
    /\ UNCHANGED busVars
    /\ UNCHANGED <<regVars, readVars, resVars, dispVars, ordVars, ebVars>>

(* the commit is aborted by the store, or the closure returned an error     *)
(* that wraps the abort signal of one of its reads: the client discards the *)
(* buffered mutations and invokes the closure again with a new transaction  *)
TxAbortRetry ==
    /\ cmdPc = "return"
    /\ fnErr = Nil \/ IsAborted(fnErr)
    /\ attempt < MaxAttempts
    /\ txBuf' = <<>>
    /\ ctx' = withReadWriteTx(EmptyCtx, nextTx).ctx
    /\ nextTx' = nextTx + 1
    /\ attempt' = attempt + 1
    /\ cmdPc' = "fn"
    /\ trace' = Append(trace, [op |-> "retry", f |-> flushNo, ev |-> nextSeq, type |-> "none",
                               h |-> 0, err |-> fnErr # Nil, pubs |-> <<>>, fnErr |-> fnErr,
                               buffered |-> txBuf])
    /\ UNCHANGED <<db0, db, user, fnErr, execResult, orderSaves, fault, nested>>
    /\ UNCHANGED <<registry, phase, cfgDepth, maxDepth, pending, depth, cur, curHandlers, hidx,
                   flushPc, flushResult, herr, flushNo, flushStart, nextSeq>>
    /\ UNCHANGED <<regVars, readVars, resVars, dispVars, ordVars, ebVars>>

(* ReadOnlyTransactionScope.Execute around a query *)
QueryBegin ==
    /\ phase = "run"
    /\ cmdPc = "idle"
    /\ LET r == withReadOnlyTx(ctx, nextTx) IN
       IF r.err # Nil
       THEN /\ execResult' = [done |-> TRUE, err |-> r.err]
            /\ cmdPc' = "done"
            /\ ctx' = ctx
            /\ roTxs' = Append(roTxs, [tx |-> nextTx, closes |-> DeferredClose(0, r.err),
                                       returned |-> TRUE, err |-> r.err])
       ELSE /\ ctx' = r.ctx
            /\ cmdPc' = "qfn"
            /\ roTxs' = Append(roTxs, [tx |-> nextTx, closes |-> 0, returned |-> FALSE,
                                       err |-> Nil])
            /\ UNCHANGED execResult
    /\ nextTx' = nextTx + 1
    /\ UNCHANGED <<db0, db, txBuf, user, fnErr, attempt, orderSaves, fault, nested>>
    /\ UNCHANGED busVars
    /\ UNCHANGED <<regVars, readVars, withResult, dispVars, ordVars, ebVars>>

QueryFn ==
    /\ cmdPc = "qfn"
    /\ LET r == UserFindByID(ctx, db, CmdUserID) IN
       /\ user' = r.user
       /\ fnErr' = r.err
    /\ cmdPc' = "qreturn"
    /\ UNCHANGED <<db0, db, txBuf, nextTx, ctx, execResult, attempt, orderSaves, fault, nested>>
    /\ UNCHANGED busVars
    /\ UNCHANGED <<regVars, readVars, resVars, dispVars, ordVars, ebVars>>

QueryReturn ==
    /\ cmdPc = "qreturn"
    /\ execResult' = [done |-> TRUE, err |-> fnErr]
    /\ ctx' = EmptyCtx
    /\ cmdPc' = "done"
    /\ roTxs' = [i \in DOMAIN roTxs |->
                    IF roTxs[i].tx = ctx.ro
                    THEN [tx |-> ctx.ro, closes |-> DeferredClose(roTxs[i].closes, fnErr),
                          returned |-> TRUE, err |-> fnErr]
                    ELSE roTxs[i]]
    /\ UNCHANGED <<db0, db, txBuf, nextTx, user, fnErr, attempt, orderSaves, fault, nested>>
    /\ UNCHANGED busVars
    /\ UNCHANGED <<regVars, readVars, withResult, dispVars, ordVars, ebVars>>

(* Code running inside fn calls Execute of a scope of the given kind with   *)
(* the context it was handed and an fn that returns nil                     *)
NestedExecute(kind) ==
    /\ cmdPc \in {"load", "qfn"}
    /\ Len(nested) < MaxNested
    /\ LET r == ScopeExecute(kind, ctx, nextTx, Nil) IN
       /\ nested' = Append(nested, [kind |-> kind, before |-> ctx, err |-> r.embedErr,
                                    returned |-> r.embedCtx, callerCtx |-> ctx,
                                    fnCtx |-> r.fnCtx, fnCalls |-> r.fnCalls,
                                    result |-> r.result])
       /\ roTxs' = IF kind = "ro"
                   THEN Append(roTxs, [tx |-> nextTx, closes |-> r.closes, returned |-> TRUE,
                                       err |-> r.result])
                   ELSE roTxs
    /\ nextTx' = nextTx + 1
    /\ UNCHANGED <<db0, db, txBuf, ctx, cmdPc, user, fnErr, execResult, attempt, orderSaves, fault>>
    /\ UNCHANGED busVars
    /\ UNCHANGED <<regVars, readVars, withResult, dispVars, ordVars, ebVars>>

InitBus ==
    /\ registry = NewEventHandlerRegistry
    /\ phase = "startup"
    /\ cfgDepth = 0
    /\ maxDepth = 0
    /\ pending = <<>>
    /\ depth = 0
    /\ cur = NoEvent
    /\ curHandlers = <<>>
    /\ hidx = 1
    /\ flushPc = "idle"
    /\ flushResult = Nil
    /\ herr = Nil
    /\ flushNo = 0
    /\ flushStart = {}
    /\ nextSeq = 1
    /\ trace = <<>>
    /\ db = [user |-> StatusActive, orders |-> [i \in OrderIds |-> [owner |-> CmdUserID, status |-> StatusPending]]]
    /\ db0 = db
    /\ txBuf = <<>>
    /\ nextTx = 1
    /\ ctx = EmptyCtx
    /\ cmdPc = "idle"
    /\ user = NoUser
    /\ fnErr = Nil
    /\ execResult = [done |-> FALSE, err |-> Nil]
    /\ attempt = 0
    /\ orderSaves = 0
    /\ fault = [userSave |-> FALSE, orderSaveAt |-> 0, queryAbortIn |-> 0]
    /\ nested = <<>>
    /\ regMu = NewMu
    /\ procs = <<>>
    /\ reads = <<>>
    /\ roTxs = <<>>
    /\ withResult = NoCall
    /\ bmu = "unlocked"
    /\ gos = NoGoroutines
    /\ order = NewOrder /\ eb = NewEventBus

NextBus ==
    \/ \E t \in EventTypes, h \in BusHandlers : Subscribe(t, h, MaxSubs)
    \/ \E d \in 0..MaxCfgDepth : Construct(d)
    \/ \E t \in EventTypes : Publish(t)
    \/ FlushCall
    \/ FlushLoop
    \/ FlushUnlock
    \/ FlushHandle
    \/ FlushRelock
    \/ FlushNextEvent
    \/ FlushReturn

SpecBus == InitBus /\ [][NextBus]_vars

(* rows an order can start from: any status for the user being deleted,    *)
(* and an order of another user                                            *)
OrderRows ==
    {[owner |-> CmdUserID, status |-> st] : st \in OrderStatuses}
    \cup {[owner |-> u, status |-> StatusPending] : u \in Users \ {CmdUserID}}

FaultChoices ==
    {[userSave |-> FALSE, orderSaveAt |-> 0, queryAbortIn |-> 0],
     [userSave |-> TRUE, orderSaveAt |-> 0, queryAbortIn |-> 0]}
    \cup {[userSave |-> FALSE, orderSaveAt |-> k, queryAbortIn |-> 0] : k \in 1..MaxOrders}

Init ==
    /\ registry = NewEventHandlerRegistry
    /\ phase = "startup"
    /\ cfgDepth = 0
    /\ maxDepth = 0
    /\ pending = <<>>
    /\ depth = 0
    /\ cur = NoEvent
    /\ curHandlers = <<>>
    /\ hidx = 1
    /\ flushPc = "idle"
    /\ flushResult = Nil
    /\ herr = Nil
    /\ flushNo = 0
    /\ flushStart = {}
    /\ nextSeq = 1
    /\ trace = <<>>
    /\ db \in [user : {StatusActive, StatusDeleted, Absent},
                orders : [OrderIds -> OrderRows]]
    /\ db0 = db
    /\ txBuf = <<>>
    /\ nextTx = 1
    /\ ctx = EmptyCtx
    /\ cmdPc = "idle"
    /\ user = NoUser
    /\ fnErr = Nil
    /\ execResult = [done |-> FALSE, err |-> Nil]
    /\ attempt = 0
    /\ orderSaves = 0
    /\ fault \in FaultChoices
    /\ nested = <<>>
    /\ regMu = NewMu
    /\ procs = <<>>
    /\ reads = <<>>
    /\ roTxs = <<>>
    /\ withResult = NoCall
    /\ bmu = "unlocked"
    /\ gos = NoGoroutines
    /\ order = NewOrder /\ eb = NewEventBus

Next ==
    \/ \E h \in CmdHandlers : Subscribe(UserDeletedEventType, h, MaxCmdSubs)
    \/ StartupDone
    \/ ExecuteBegin
    \/ FnStart
    \/ CmdLoad
    \/ CmdDelete
    \/ CmdSave
    \/ CmdPublish
    \/ CmdFlush
    \/ FlushLoop
    \/ FlushUnlock
    \/ FlushHandle
    \/ FlushRelock
    \/ FlushNextEvent
    \/ CmdAfterFlush
    \/ TxRollback
    \/ TxCommit
    \/ TxAbortRetry
    \/ QueryBegin
    \/ QueryFn
    \/ QueryReturn
    \/ \E kind \in ScopeKinds : NestedExecute(kind)

Spec == Init /\ [][Next]_vars

(* The delete-user command under retry: handlers that publish further       *)
(* events are subscribed next to the order-cancelling one, and the orders   *)
(* query of one attempt may be answered with the abort signal.              *)
RetryHandlers == {UserDeletedHandler, NoopHandler} \cup {PubHandler(t) : t \in EventTypes}

RetryFaults == {[userSave |-> FALSE, orderSaveAt |-> 0, queryAbortIn |-> k] : k \in 0..1}

InitRetry ==
    /\ registry = NewEventHandlerRegistry
    /\ phase = "startup"
    /\ cfgDepth = 0
    /\ maxDepth = 0
    /\ pending = <<>>
    /\ depth = 0
    /\ cur = NoEvent
    /\ curHandlers = <<>>
    /\ hidx = 1
    /\ flushPc = "idle"
    /\ flushResult = Nil
    /\ herr = Nil
    /\ flushNo = 0
    /\ flushStart = {}
    /\ nextSeq = 1
    /\ trace = <<>>
    /\ db = [user |-> StatusActive,
             orders |-> [i \in OrderIds |-> [owner |-> CmdUserID, status |-> StatusPending]]]
    /\ db0 = db
    /\ txBuf = <<>>
    /\ nextTx = 1
    /\ ctx = EmptyCtx
    /\ cmdPc = "idle"
    /\ user = NoUser
    /\ fnErr = Nil
    /\ execResult = [done |-> FALSE, err |-> Nil]
    /\ attempt = 0
    /\ orderSaves = 0
    /\ fault \in RetryFaults
    /\ nested = <<>>
    /\ regMu = NewMu
    /\ procs = <<>>
    /\ reads = <<>>
    /\ roTxs = <<>>
    /\ withResult = NoCall
    /\ bmu = "unlocked"
    /\ gos = NoGoroutines
    /\ order = NewOrder /\ eb = NewEventBus

NextRetry ==
    \/ \E t \in EventTypes, h \in RetryHandlers : Subscribe(t, h, MaxRetrySubs)
    \/ StartupDone
    \/ ExecuteBegin
    \/ FnStart
    \/ CmdLoad
    \/ CmdDelete
    \/ CmdSave
    \/ CmdPublish
    \/ CmdFlush
    \/ FlushLoop
    \/ FlushUnlock
    \/ FlushHandle
    \/ FlushRelock
    \/ FlushNextEvent
    \/ CmdAfterFlush
    \/ TxRollback
    \/ TxCommit
    \/ TxAbortRetry

SpecRetry == InitRetry /\ [][NextRetry]_vars

(* A bus in use while another module still subscribes: Subscribe called     *)
(* after startup, also between two steps of a running Flush                 *)
SubscribeDuringRun(t, h, max) ==
    /\ phase = "run"
    /\ Cardinality({i \in DOMAIN trace : trace[i].op = "subscribe"}) < max
    /\ registry' = RegistrySubscribe(registry, t, h)
    /\ trace' = Append(trace, [op |-> "subscribe", f |-> flushNo, ev |-> cur.seq,
                               type |-> t, h |-> 0, err |-> FALSE, pubs |-> <<>>,
                               handler |-> h])
    /\ UNCHANGED <<phase, cfgDepth, maxDepth, pending, depth, cur, curHandlers, hidx,
                   flushPc, flushResult, herr, flushNo, flushStart, nextSeq>>
    /\ UNCHANGED txVars
    /\ UNCHANGED <<regVars, readVars, resVars, dispVars, ordVars, ebVars>>

StartupHandlers(t) == {NoopHandler, PubHandler(t)}

LateHandlers == {FailHandler}

NextLate ==
    \/ \E h \in StartupHandlers(UserDeletedEventType) :
          Subscribe(UserDeletedEventType, h, MaxSubs)
    \/ \E d \in 1..MaxCfgDepth + 1 : Construct(d)
    \/ Publish(UserDeletedEventType)
    \/ flushNo = 0 /\ FlushCall
    \/ FlushLoop
    \/ FlushUnlock
    \/ FlushHandle
    \/ FlushRelock
    \/ FlushNextEvent
    \/ FlushReturn
    \/ \E h \in LateHandlers : SubscribeDuringRun(UserDeletedEventType, h, MaxLate)

SpecLate == InitBus /\ [][NextLate]_vars

(* Contexts as the accessors can be handed them: values stored under the    *)
(* two transaction keys by context.WithValue, in any order and number.      *)
ContextSlots == {"rw", "ro"}

(* part_032:18,37  context.WithValue(ctx, readWriteTxKey{} / readOnlyTxKey{}, tx) *)
ContextWithValue(slot, tx) ==
    /\ cmdPc = "idle"
    /\ ctx' = [ctx EXCEPT ![slot] = tx]
    /\ UNCHANGED <<db0, db, txBuf, nextTx, cmdPc, user, fnErr, execResult, attempt,
                   orderSaves, fault, nested>>
    /\ UNCHANGED <<busVars, regVars, readVars, resVars, dispVars, ordVars, ebVars>>

(* a call of ReadTransactionFromContext on the current context *)
ContextRead ==
    /\ cmdPc = "idle"
    /\ Len(reads) < MaxReads
    /\ reads' = Append(reads, [op |-> "lookup", ctx |-> ctx,
                               got |-> ReadTransactionFromContext(ctx)])
    /\ UNCHANGED <<busVars, txVars, regVars, resVars, dispVars, ordVars, ebVars>>

NextContext ==
    \/ \E slot \in ContextSlots, tx \in 1..MaxTxId : ContextWithValue(slot, tx)
    \/ ContextRead

SpecContext == InitBus /\ [][NextContext]_vars

(* A repository Save called with whatever the context carries: the user    *)
(* repository saving the user as deleted, the order repository saving an    *)
(* order as cancelled.                                                      *)
SaveRepos == {"users", "orders"}

RepoSave(repo, c) ==
    IF repo = "users"
    THEN UserSave(c, CmdUserID, [status |-> StatusDeleted, domainEvents |-> <<>>])
    ELSE OrderSave(c, [id |-> 1, status |-> StatusCancelled], Len(reads) + 1)

ContextSave(repo) ==
    /\ cmdPc = "idle"
    /\ Len(reads) < MaxReads
    /\ LET r == RepoSave(repo, ctx) IN
       /\ txBuf' = txBuf \o r.buffered
       /\ db' = ApplyAll(db, r.direct)
       /\ reads' = Append(reads, [op |-> "save", repo |-> repo, ctx |-> ctx, err |-> r.err,
                                  buffered |-> r.buffered, direct |-> r.direct])
    /\ UNCHANGED <<db0, nextTx, ctx, cmdPc, user, fnErr, execResult, attempt, orderSaves,
                   fault, nested>>
    /\ UNCHANGED <<busVars, regVars, resVars, dispVars, ordVars, ebVars>>

NextSave ==
    \/ \E slot \in ContextSlots, tx \in 1..MaxTxId : ContextWithValue(slot, tx)
    \/ \E repo \in SaveRepos : ContextSave(repo)

SpecSave == InitBus /\ [][NextSave]_vars

(* An Order aggregate on which the application calls its methods in any   *)
(* order                                                                    *)
OrderCall(op, productID, quantity) ==
    /\ op = "AddItem" => TotalQuantity(order.items) < MaxItems
    /\ LET r == OrderApply(op, order, productID, quantity) IN
       order' = [status |-> r.order.status, items |-> r.order.items, op |-> op, err |-> r.err,
                 before |-> [status |-> order.status, items |-> order.items]]
    /\ UNCHANGED <<busVars, txVars, regVars, readVars, resVars, dispVars, ebVars>>

NextOrder ==
    \E op \in OrderMethods, productID \in Products, quantity \in Quantities :
        OrderCall(op, productID, quantity)

SpecOrder == InitBus /\ [][NextOrder]_vars

(* ------------- EventBus: the variant that dispatches on Publish -------- *)
(* part_030:142-148  NewEventBus: maxDepth: 10 *)
EventBusMaxDepth == 10

(* part_030:176  errors.New("event processing depth exceeded"): a new error *)
(* value, not the package variable ErrEventProcessingDepthExceeded          *)
DepthExceededNew == [kind |-> "errorsNew", msg |-> "event processing depth exceeded"]

(* handlers of this bus: one that returns nil, one that fails, and one that *)
(* publishes a UserDeleted event on the bus with the context it was given   *)
(* and returns what Publish returns                                         *)
EventBusHandlers == {NoopHandler, FailHandler, PubHandler(UserDeletedEventType)}

(* the event lists Publish is called with *)
EventLists == {<<t>> : t \in EventTypes} \cup {<<t, u>> : t, u \in EventTypes}

EbSubsCount(h) == Len(h[UserDeletedEventType]) + Len(h[OrderSubmittedEventType])

EbPubSubs(h) ==
    Cardinality({<<t, i>> \in EventTypes \X (1..MaxSubs + 1) :
                    i \in DOMAIN h[t] /\ h[t][i].kind = "pub"})

(* Subscribe: the handler is appended under the write lock *)
EventBusSubscribe(t, h) ==
    /\ EbSubsCount(eb.handlers) < MaxSubs
    /\ h.kind = "pub" => EbPubSubs(eb.handlers) < MaxPubSubs
    /\ eb' = [eb EXCEPT !.handlers[t] = Append(@, h)]
    /\ UNCHANGED <<busVars, txVars, regVars, readVars, resVars, dispVars, ordVars>>

(* handlersFor: the copy made under the read lock *)
handlersFor(h, eventType) == h[eventType]

(* processEvent past its depth guard: the handlers are copied and one       *)
(* goroutine per handler is started in an errgroup. path names the          *)
(* invocation: the Publish call, then the handler positions that lead to it; *)
(* the context it read carried depth Len(path) - 1.                         *)
processEvent(path, eventType, h) ==
    [path |-> path, type |-> eventType, handlers |-> handlersFor(h, eventType),
     st |-> [i \in DOMAIN handlersFor(h, eventType) |-> "ready"], gerr |-> Nil]

(* errgroup: the first error a goroutine returns is the one Wait returns *)
GroupErr(gerr, err) == IF gerr = Nil THEN err ELSE gerr

(* what g.Wait makes processEvent return *)
ProcessEventResult(f) ==
    IF f.gerr # Nil THEN WrapHandlerFailed(f.type, f.gerr) ELSE Nil

(* Publish(ctx, events...) called by the application with a context that    *)
(* carries no depth: processEvent of the first event starts                 *)
EventBusPublish(evs) ==
    /\ Len(eb.calls) < MaxEbCalls
    /\ eb' = [eb EXCEPT
                !.calls = Append(@, [events |-> evs, idx |-> 1, returned |-> FALSE,
                                     result |-> Nil]),
                !.frames = @ \cup {processEvent(<<Len(eb.calls) + 1>>, evs[1], eb.handlers)}]
    /\ UNCHANGED <<busVars, txVars, regVars, readVars, resVars, dispVars, ordVars>>

(* a handler goroutine of the errgroup runs handler.Handle(ctx, event); a   *)
(* publishing handler calls Publish, whose processEvent reads depth         *)
(* Len(f.path) from the context and returns the errors.New value when that  *)
(* reached maxDepth                                                         *)
EventBusHandle(f, i) ==
    /\ f \in eb.frames
    /\ i \in DOMAIN f.handlers
    /\ f.st[i] = "ready"
    /\ LET h == f.handlers[i]
           done(err) == [f EXCEPT !.st[i] = "done", !.gerr = GroupErr(@, err)]
       IN IF h.kind = "noop"
          THEN eb' = [eb EXCEPT !.frames = (@ \ {f}) \cup {done(Nil)}]
          ELSE IF h.kind = "fail"
          THEN eb' = [eb EXCEPT !.frames = (@ \ {f}) \cup {done(HandlerErr)}]
          ELSE IF Len(f.path) >= EventBusMaxDepth
          THEN eb' = [eb EXCEPT !.frames = (@ \ {f}) \cup {done(DepthExceededNew)}]
          ELSE /\ Cardinality(eb.frames) < MaxEbFrames
               /\ eb' = [eb EXCEPT !.frames =
                            (@ \ {f}) \cup {[f EXCEPT !.st[i] = "wait"],
                                            processEvent(Append(f.path, i), h.pub, eb.handlers)}]
    /\ UNCHANGED <<busVars, txVars, regVars, readVars, resVars, dispVars, ordVars>>

(* g.Wait returns once every handler goroutine returned. A nested           *)
(* processEvent hands its result to the handler that published, which       *)
(* returns it to its errgroup; the outermost one returns to the loop of     *)
(* Publish, which returns an error at once and goes on to the next event    *)
(* otherwise.                                                               *)
EventBusWait(f) ==
    /\ f \in eb.frames
    /\ \A i \in DOMAIN f.st : f.st[i] = "done"
    /\ IF Len(f.path) > 1
       THEN LET p == CHOOSE q \in eb.frames : q.path = SubSeq(f.path, 1, Len(f.path) - 1)
                i == f.path[Len(f.path)]
            IN eb' = [eb EXCEPT !.frames =
                         (@ \ {f, p}) \cup {[p EXCEPT !.st[i] = "done",
                                                      !.gerr = GroupErr(@, ProcessEventResult(f))]}]
       ELSE LET c == f.path[1]
                call == eb.calls[c]
            IN IF ProcessEventResult(f) # Nil \/ call.idx = Len(call.events)
               THEN eb' = [eb EXCEPT !.frames = @ \ {f},
                                     !.calls[c].returned = TRUE,
                                     !.calls[c].result = ProcessEventResult(f)]
               ELSE eb' = [eb EXCEPT !.frames = (@ \ {f}) \cup
                                         {processEvent(<<c>>, call.events[call.idx + 1],
                                                    eb.handlers)},
                                     !.calls[c].idx = @ + 1]
    /\ UNCHANGED <<busVars, txVars, regVars, readVars, resVars, dispVars, ordVars>>

NextEventBus ==
    \/ \E t \in EventTypes, h \in EventBusHandlers : EventBusSubscribe(t, h)
    \/ \E evs \in EventLists : EventBusPublish(evs)
    \/ \E f \in eb.frames : \E i \in DOMAIN f.handlers : EventBusHandle(f, i)
    \/ \E f \in eb.frames : EventBusWait(f)

SpecEventBus == InitBus /\ [][NextEventBus]_vars

(* A use case that saves an aggregate and reads it back through the same    *)
(* repository before the transaction function returns.                      *)
(* users SpannerRepository.FindByID called after Save returned nil *)
CmdReadBack ==
    /\ cmdPc = "publish"
    /\ Len(reads) < MaxReads
    /\ LET r == UserFindByID(ctx, db, CmdUserID) IN
       reads' = Append(reads, [op |-> "find", ctx |-> ctx, saved |-> user.status,
                               got |-> r.user.status, err |-> r.err, buffered |-> txBuf])
    /\ UNCHANGED <<busVars, txVars, regVars, resVars, dispVars, ordVars, ebVars>>

NextReadBack ==
    \/ \E t \in EventTypes, h \in RetryHandlers : Subscribe(t, h, MaxRetrySubs)
    \/ StartupDone
    \/ ExecuteBegin
    \/ FnStart
    \/ CmdLoad
    \/ CmdDelete
    \/ CmdSave
    \/ CmdReadBack
    \/ CmdPublish
    \/ CmdFlush
    \/ FlushLoop
    \/ FlushUnlock
    \/ FlushHandle
    \/ FlushRelock
    \/ FlushNextEvent
    \/ CmdAfterFlush
    \/ TxRollback
    \/ TxCommit
    \/ TxAbortRetry

SpecReadBack == InitRetry /\ [][NextReadBack]_vars

(* Goroutines that call Subscribe and HandlersFor on one registry at the    *)
(* same time, one call each, a step per statement.                          *)
ProcHandler(p) == [kind |-> "noop", pub |-> "none", id |-> p]

ProcChoices(p) ==
    {[op |-> o, pc |-> "start", type |-> t, handler |-> ProcHandler(p), local |-> <<>>,
      result |-> <<>>, seen |-> {}] : o \in {"Subscribe", "HandlersFor"}, t \in EventTypes}

Returned == {p \in DOMAIN procs : procs[p].op = "Subscribe" /\ procs[p].pc = "done"}

(* registry.go:43  r.mu.Lock() *)
SubLock(p) ==
    /\ procs[p].op = "Subscribe" /\ procs[p].pc = "start"
    /\ CanLock(regMu)
    /\ regMu' = [regMu EXCEPT !.writer = p]
    /\ procs' = [procs EXCEPT ![p].pc = "locked"]
    /\ UNCHANGED <<busVars, txVars, readVars, resVars, dispVars, ordVars, ebVars>>

(* registry.go:46  the operand r.handlers[eventType] of append *)
SubRead(p) ==
    /\ procs[p].op = "Subscribe" /\ procs[p].pc = "locked"
    /\ procs' = [procs EXCEPT ![p].local = registry[procs[p].type], ![p].pc = "append"]
    /\ UNCHANGED <<busVars, txVars, regMu, readVars, resVars, dispVars, ordVars, ebVars>>

(* registry.go:46  r.handlers[eventType] = append(..., handler) *)
SubWrite(p) ==
    /\ procs[p].op = "Subscribe" /\ procs[p].pc = "append"
    /\ registry' = [registry EXCEPT ![procs[p].type] = Append(procs[p].local, procs[p].handler)]
    /\ procs' = [procs EXCEPT ![p].pc = "unlock"]
    /\ UNCHANGED <<phase, cfgDepth, maxDepth, pending, depth, cur, curHandlers, hidx,
                   flushPc, flushResult, herr, flushNo, flushStart, nextSeq, trace>>
    /\ UNCHANGED <<txVars, regMu, readVars, resVars, dispVars, ordVars, ebVars>>

(* registry.go:44,49  the deferred r.mu.Unlock() and return nil *)
SubUnlock(p) ==
    /\ procs[p].op = "Subscribe" /\ procs[p].pc = "unlock"
    /\ regMu' = [regMu EXCEPT !.writer = IF regMu.writer = p THEN 0 ELSE regMu.writer]
    /\ procs' = [procs EXCEPT ![p].pc = "done"]
    /\ UNCHANGED <<busVars, txVars, readVars, resVars, dispVars, ordVars, ebVars>>

(* registry.go:55  r.mu.RLock(); seen: the Subscribe calls that had returned *)
LookupRLock(p) ==
    /\ procs[p].op = "HandlersFor" /\ procs[p].pc = "start"
    /\ CanRLock(regMu)
    /\ regMu' = [regMu EXCEPT !.readers = regMu.readers \cup {p}]
    /\ procs' = [procs EXCEPT ![p].pc = "copy", ![p].seen = Returned]
    /\ UNCHANGED <<busVars, txVars, readVars, resVars, dispVars, ordVars, ebVars>>

(* registry.go:58-60  copy of r.handlers[eventType] *)
LookupCopy(p) ==
    /\ procs[p].op = "HandlersFor" /\ procs[p].pc = "copy"
    /\ procs' = [procs EXCEPT ![p].result = HandlersFor(registry, procs[p].type),
                              ![p].pc = "unlock"]
    /\ UNCHANGED <<busVars, txVars, regMu, readVars, resVars, dispVars, ordVars, ebVars>>

(* registry.go:56,61  the deferred r.mu.RUnlock() and return result *)
LookupRUnlock(p) ==
    /\ procs[p].op = "HandlersFor" /\ procs[p].pc = "unlock"
    /\ regMu' = [regMu EXCEPT !.readers = regMu.readers \ {p}]
    /\ procs' = [procs EXCEPT ![p].pc = "done"]
    /\ UNCHANGED <<busVars, txVars, readVars, resVars, dispVars, ordVars, ebVars>>

InitRegistry ==
    /\ registry = NewEventHandlerRegistry
    /\ phase = "startup"
    /\ cfgDepth = 0
    /\ maxDepth = 0
    /\ pending = <<>>
    /\ depth = 0
    /\ cur = NoEvent
    /\ curHandlers = <<>>
    /\ hidx = 1
    /\ flushPc = "idle"
    /\ flushResult = Nil
    /\ herr = Nil
    /\ flushNo = 0
    /\ flushStart = {}
    /\ nextSeq = 1
    /\ trace = <<>>
    /\ db = [user |-> StatusActive,
             orders |-> [i \in OrderIds |-> [owner |-> CmdUserID, status |-> StatusPending]]]
    /\ db0 = db
    /\ txBuf = <<>>
    /\ nextTx = 1
    /\ ctx = EmptyCtx
    /\ cmdPc = "idle"
    /\ user = NoUser
    /\ fnErr = Nil
    /\ execResult = [done |-> FALSE, err |-> Nil]
    /\ attempt = 0
    /\ orderSaves = 0
    /\ fault = [userSave |-> FALSE, orderSaveAt |-> 0, queryAbortIn |-> 0]
    /\ nested = <<>>
    /\ regMu = NewMu
    /\ procs \in {f \in [1..MaxProcs -> UNION {ProcChoices(p) : p \in 1..MaxProcs}] :
                     \A p \in 1..MaxProcs : f[p] \in ProcChoices(p)}
    /\ reads = <<>>
    /\ roTxs = <<>>
    /\ withResult = NoCall
    /\ bmu = "unlocked"
    /\ gos = NoGoroutines
    /\ order = NewOrder /\ eb = NewEventBus

NextRegistry ==
    \/ \E p \in DOMAIN procs : SubLock(p)
    \/ \E p \in DOMAIN procs : SubRead(p)
    \/ \E p \in DOMAIN procs : SubWrite(p)
    \/ \E p \in DOMAIN procs : SubUnlock(p)
    \/ \E p \in DOMAIN procs : LookupRLock(p)
    \/ \E p \in DOMAIN procs : LookupCopy(p)
    \/ \E p \in DOMAIN procs : LookupRUnlock(p)

SpecRegistry == InitRegistry /\ [][NextRegistry]_vars

(* An aggregate whose business methods add events and whose caller drains   *)
(* them the way the command handlers do: DomainEvents, then                 *)
(* ClearDomainEvents. The trace records what was added and what each drain  *)
(* returned.                                                                *)
AggregateEvents == {[type |-> t, userID |-> u] : t \in EventTypes, u \in Users}

AggregateAdd(event) ==
    /\ Cardinality({i \in DOMAIN trace : trace[i].op = "add"}) < MaxAggEvents
    /\ user' = AddDomainEvent(user, event)
    /\ trace' = Append(trace, [op |-> "add", events |-> <<event>>])
    /\ UNCHANGED <<registry, phase, cfgDepth, maxDepth, pending, depth, cur, curHandlers, hidx,
                   flushPc, flushResult, herr, flushNo, flushStart, nextSeq>>
    /\ UNCHANGED <<db0, db, txBuf, nextTx, ctx, cmdPc, fnErr, execResult, attempt,
                   orderSaves, fault, nested>>
    /\ UNCHANGED <<regVars, readVars, resVars, dispVars, ordVars, ebVars>>

AggregateDrain ==
    /\ Cardinality({i \in DOMAIN trace : trace[i].op = "drain"}) < MaxDrains
    /\ trace' = Append(trace, [op |-> "drain", events |-> DomainEvents(user)])
    /\ user' = ClearDomainEvents(user)
    /\ UNCHANGED <<registry, phase, cfgDepth, maxDepth, pending, depth, cur, curHandlers, hidx,
                   flushPc, flushResult, herr, flushNo, flushStart, nextSeq>>
    /\ UNCHANGED <<db0, db, txBuf, nextTx, ctx, cmdPc, fnErr, execResult, attempt,
                   orderSaves, fault, nested>>
    /\ UNCHANGED <<regVars, readVars, resVars, dispVars, ordVars, ebVars>>

InitAggregate ==
    /\ InitBus
    /\ user.status = "none"

NextAggregate ==
    \/ \E event \in AggregateEvents : AggregateAdd(event)
    \/ AggregateDrain

SpecAggregate == InitAggregate /\ [][NextAggregate]_vars

(* --------------------------- ExecuteWithResult ------------------------- *)
(* A call of ExecuteWithResult with a scope that invokes the closure any    *)
(* number of times (none, once, again after an abort) and then returns the  *)
(* closure's error, nil or an error of its own, and an fn that returns a    *)
(* value with or without an error.                                          *)
AssignResultOnSuccess(result, value, err) == IF err = Nil THEN value ELSE result

(* scope.go:23  result, fnErr = fn(ctx) *)
AssignResult(result, value, err) == value

(* scope.go:20  var result T, then scope.Execute is entered *)
WithResultCall ==
    /\ withResult.pc = "idle"
    /\ withResult' = [withResult EXCEPT !.pc = "scope", !.result = ZeroValue]
    /\ UNCHANGED <<busVars, txVars, regVars, readVars, roTxs, dispVars, ordVars, ebVars>>

(* scope.go:21-25  the scope invokes the closure, fn returns (value, err) *)
WithResultInvoke(value, err) ==
    /\ withResult.pc = "scope"
    /\ withResult.calls < MaxFnCalls
    /\ withResult' = [withResult EXCEPT !.result = AssignResult(withResult.result, value, err),
                                        !.calls = withResult.calls + 1,
                                        !.lastValue = value,
                                        !.lastErr = err]
    /\ UNCHANGED <<busVars, txVars, regVars, readVars, roTxs, dispVars, ordVars, ebVars>>

(* scope.go:21,26  scope.Execute returns err; return result, err *)
WithResultReturn(err) ==
    /\ withResult.pc = "scope"
    /\ withResult' = [withResult EXCEPT !.pc = "done",
                                        !.scopeErr = err,
                                        !.ret = [result |-> withResult.result, err |-> err]]
    /\ UNCHANGED <<busVars, txVars, regVars, readVars, roTxs, dispVars, ordVars, ebVars>>

NextWithResult ==
    \/ WithResultCall
    \/ \E value \in FnValues, err \in {Nil, ErrFn, AbortedErr} : WithResultInvoke(value, err)
    \/ \E err \in {Nil, withResult.lastErr, ErrTx, ErrNestedTransaction} : WithResultReturn(err)

SpecWithResult == InitBus /\ [][NextWithResult]_vars

(* The delete-user command for users with few and with very many orders:   *)
(* none, one, as many as the handler's page holds, and one more.            *)
OrderCounts == {0, 1, FindLimit, FindLimit + 1}

ManyOrdersHandlers == {UserDeletedHandler, NoopHandler}

InitManyOrders ==
    /\ registry = NewEventHandlerRegistry
    /\ phase = "startup"
    /\ cfgDepth = 0
    /\ maxDepth = 0
    /\ pending = <<>>
    /\ depth = 0
    /\ cur = NoEvent
    /\ curHandlers = <<>>
    /\ hidx = 1
    /\ flushPc = "idle"
    /\ flushResult = Nil
    /\ herr = Nil
    /\ flushNo = 0
    /\ flushStart = {}
    /\ nextSeq = 1
    /\ trace = <<>>
    /\ db \in {[user |-> u,
                 orders |-> [i \in 1..n |-> [owner |-> CmdUserID, status |-> st]]] :
                    u \in {StatusActive, Absent}, n \in OrderCounts,
                    st \in {StatusDraft, StatusPending}}
    /\ db0 = db
    /\ txBuf = <<>>
    /\ nextTx = 1
    /\ ctx = EmptyCtx
    /\ cmdPc = "idle"
    /\ user = NoUser
    /\ fnErr = Nil
    /\ execResult = [done |-> FALSE, err |-> Nil]
    /\ attempt = 0
    /\ orderSaves = 0
    /\ fault = [userSave |-> FALSE, orderSaveAt |-> 0, queryAbortIn |-> 0]
    /\ nested = <<>>
    /\ regMu = NewMu
    /\ procs = <<>>
    /\ reads = <<>>
    /\ roTxs = <<>>
    /\ withResult = NoCall
    /\ bmu = "unlocked"
    /\ gos = NoGoroutines
    /\ order = NewOrder /\ eb = NewEventBus

NextManyOrders ==
    \/ \E h \in ManyOrdersHandlers : Subscribe(UserDeletedEventType, h, MaxCmdSubs)
    \/ StartupDone
    \/ ExecuteBegin
    \/ FnStart
    \/ CmdLoad
    \/ CmdDelete
    \/ CmdSave
    \/ CmdPublish
    \/ CmdFlush
    \/ FlushLoop
    \/ FlushUnlock
    \/ FlushHandle
    \/ FlushRelock
    \/ FlushNextEvent
    \/ CmdAfterFlush
    \/ TxRollback
    \/ TxCommit
    \/ TxAbortRetry

SpecManyOrders == InitManyOrders /\ [][NextManyOrders]_vars

(* Events constructed with arbitrary type names, added to an aggregate and  *)
(* published from it: "u.De", "De", "u.de", "U.De", "u.D", "u-De", "".      *)
EventTypeNames ==
    {<<"u", ".", "D", "e">>, <<"D", "e">>, <<"u", ".", "d", "e">>, <<"U", ".", "D", "e">>,
     <<"u", ".", "D">>, <<"u", "-", "D", "e">>, <<>>}

EventConstruct(name) == AggregateAdd(NewBaseEvent(name, CmdUserID))

EventPublish ==
    /\ DomainEvents(user) # <<>>
    /\ LET r == PublishAll(pending, DomainEvents(user), nextSeq) IN
       /\ pending' = r.pending
       /\ nextSeq' = nextSeq + (Len(r.pending) - Len(pending))
    /\ user' = ClearDomainEvents(user)
    /\ UNCHANGED <<registry, phase, cfgDepth, maxDepth, depth, cur, curHandlers, hidx,
                   flushPc, flushResult, herr, flushNo, flushStart, trace>>
    /\ UNCHANGED <<db0, db, txBuf, nextTx, ctx, cmdPc, fnErr, execResult, attempt,
                   orderSaves, fault, nested>>
    /\ UNCHANGED <<regVars, readVars, resVars, dispVars, ordVars, ebVars>>

NextEventType ==
    \/ \E name \in EventTypeNames : EventConstruct(name)
    \/ EventPublish

SpecEventType == InitAggregate /\ [][NextEventType]_vars

(* --------------- the bus called from several goroutines --------------- *)
(* Goroutines call Publish and Flush on one TransactionalEventBus; a        *)
(* handler may return nil, return an error, publish on the bus, or call     *)
(* Flush on the bus that is delivering to it and return what it returns.    *)
FlushHandler == [kind |-> "flush", pub |-> "none"]
PanicHandler == [kind |-> "panic", pub |-> "none"]
DispatchHandlers == {NoopHandler, FailHandler, PubHandler(UserDeletedEventType), FlushHandler}

NewFrame == [pc |-> "lock", depth |-> 0, event |-> NoEvent, handlers |-> <<>>, hidx |-> 1,
             herr |-> Nil, result |-> Nil]

Top(g) == gos[g][Len(gos[g])]

Running == phase = "run" /\ bmu # "fatal"

(* Publish called by a goroutine that is not inside Flush *)
GoPublish(g, t) ==
    /\ Running
    /\ gos[g] = <<>>
    /\ nextSeq <= MaxDispEvents
    /\ MutexCanLock(bmu)
    /\ pending' = BusPublish(pending, [seq |-> nextSeq, type |-> t, userID |-> CmdUserID]).pending
    /\ nextSeq' = nextSeq + 1
    /\ UNCHANGED <<registry, phase, cfgDepth, maxDepth, depth, cur, curHandlers, hidx,
                   flushPc, flushResult, herr, flushNo, flushStart, trace>>
    /\ UNCHANGED <<txVars, regVars, readVars, resVars, dispVars, ordVars, ebVars>>

(* Flush called by a goroutine that is not inside Flush *)
GoFlushCall(g) ==
    /\ Running
    /\ gos[g] = <<>>
    /\ flushNo < MaxDispFlush
    /\ flushNo' = flushNo + 1
    /\ gos' = [gos EXCEPT ![g] = <<NewFrame>>]
    /\ UNCHANGED <<registry, phase, cfgDepth, maxDepth, pending, depth, cur, curHandlers, hidx,
                   flushPc, flushResult, herr, flushStart, nextSeq, trace>>
    /\ UNCHANGED <<txVars, regVars, readVars, resVars, bmu, ordVars, ebVars>>

(* part_030:63  b.mu.Lock() *)
GoFlushLock(g) ==
    /\ Running
    /\ gos[g] # <<>>
    /\ Top(g).pc = "lock"
    /\ MutexCanLock(bmu)
    /\ bmu' = "locked"
    /\ gos' = [gos EXCEPT ![g][Len(gos[g])].pc = "loop"]
    /\ UNCHANGED <<busVars, txVars, regVars, readVars, resVars, ordVars, ebVars>>

(* part_030:67-76  head of the loop: guard, take the first event, look up its handlers *)
GoFlushLoop(g) ==
    /\ Running
    /\ gos[g] # <<>>
    /\ Top(g).pc = "loop"
    /\ LET f == Top(g)
           guard == FlushGuard(pending, f.depth, maxDepth)
       IN IF guard = "return_nil"
          THEN /\ gos' = [gos EXCEPT ![g][Len(gos[g])] = [f EXCEPT !.pc = "ret", !.result = Nil]]
               /\ UNCHANGED <<pending, trace>>
          ELSE IF guard = "return_depth"
          THEN /\ gos' = [gos EXCEPT ![g][Len(gos[g])] =
                             [f EXCEPT !.pc = "ret", !.result = ErrEventProcessingDepthExceeded]]
               /\ UNCHANGED <<pending, trace>>
          ELSE LET t == TakeFirst(pending) IN
               /\ pending' = t.rest
               /\ gos' = [gos EXCEPT ![g][Len(gos[g])] =
                             [f EXCEPT !.pc = "range", !.event = t.event, !.hidx = 1,
                                       !.handlers = HandlersFor(registry, t.event.type)]]
               /\ trace' = Append(trace, [op |-> "take", g |-> g, ev |-> t.event.seq,
                                          level |-> Len(gos[g])])
    /\ UNCHANGED <<registry, phase, cfgDepth, maxDepth, depth, cur, curHandlers, hidx,
                   flushPc, flushResult, herr, flushNo, flushStart, nextSeq>>
    /\ UNCHANGED <<txVars, regVars, readVars, resVars, bmu, ordVars, ebVars>>

(* part_030:77-79 and 88  the range loop: b.mu.Unlock() before the next     *)
(* handler, or depth++ after the last one                                   *)
GoFlushRange(g) ==
    /\ Running
    /\ gos[g] # <<>>
    /\ Top(g).pc = "range"
    /\ LET f == Top(g) IN
       IF f.hidx > Len(f.handlers)
       THEN /\ gos' = [gos EXCEPT ![g][Len(gos[g])] =
                          [f EXCEPT !.pc = "loop", !.depth = f.depth + 1]]
            /\ bmu' = bmu
       ELSE /\ gos' = [gos EXCEPT ![g][Len(gos[g])].pc = "handler"]
            /\ bmu' = MutexUnlock(bmu)
    /\ UNCHANGED <<busVars, txVars, regVars, readVars, resVars, ordVars, ebVars>>

(* part_030:80  handler.Handle(ctx, event) of a handler that returns nil,   *)
(* returns an error, or publishes on the bus and returns nil                *)
GoHandle(g) ==
    /\ Running
    /\ gos[g] # <<>>
    /\ Top(g).pc = "handler"
    /\ LET f == Top(g)
           h == f.handlers[f.hidx]
           out == Handle(h, f.event, EmptyCtx, db, 0)
           n == Len(out.pubs)
       IN /\ h.kind \in {"noop", "fail", "pub"}
          /\ n > 0 => MutexCanLock(bmu) /\ nextSeq + n - 1 <= MaxDispEvents
          /\ pending' = PublishAll(pending, out.pubs, nextSeq).pending
          /\ nextSeq' = nextSeq + n
          /\ gos' = [gos EXCEPT ![g][Len(gos[g])] = [f EXCEPT !.pc = "relock", !.herr = out.err]]
          /\ trace' = Append(trace, [op |-> "call", g |-> g, ev |-> f.event.seq, h |-> f.hidx,
                                     level |-> Len(gos[g])])
    /\ UNCHANGED <<registry, phase, cfgDepth, maxDepth, depth, cur, curHandlers, hidx,
                   flushPc, flushResult, herr, flushNo, flushStart>>
    /\ UNCHANGED <<txVars, regVars, readVars, resVars, bmu, ordVars, ebVars>>

(* a handler that calls Flush on the bus that is delivering to it *)
GoHandleFlush(g) ==
    /\ Running
    /\ gos[g] # <<>>
    /\ Top(g).pc = "handler"
    /\ Top(g).handlers[Top(g).hidx].kind = "flush"
    /\ flushNo < MaxDispFlush
    /\ flushNo' = flushNo + 1
    /\ gos' = [gos EXCEPT ![g] = Append([@ EXCEPT ![Len(@)].pc = "nested"], NewFrame)]
    /\ trace' = Append(trace, [op |-> "call", g |-> g, ev |-> Top(g).event.seq,
                               h |-> Top(g).hidx, level |-> Len(gos[g])])
    /\ UNCHANGED <<registry, phase, cfgDepth, maxDepth, pending, depth, cur, curHandlers, hidx,
                   flushPc, flushResult, herr, flushStart, nextSeq>>
    /\ UNCHANGED <<txVars, regVars, readVars, resVars, bmu, ordVars, ebVars>>

(* part_030:81-85  b.mu.Lock() after the handler, then its error is looked at *)
GoFlushRelock(g) ==
    /\ Running
    /\ gos[g] # <<>>
    /\ Top(g).pc = "relock"
    /\ MutexCanLock(bmu)
    /\ bmu' = "locked"
    /\ LET f == Top(g)
           o == HandleOutcome(f.herr, f.event.type, f.hidx)
       IN gos' = [gos EXCEPT ![g][Len(gos[g])] =
                     IF o.pc = "done" THEN [f EXCEPT !.pc = "ret", !.result = o.result]
                     ELSE [f EXCEPT !.pc = "range", !.hidx = o.hidx]]
    /\ UNCHANGED <<busVars, txVars, regVars, readVars, resVars, ordVars, ebVars>>

(* Flush returns: the deferred b.mu.Unlock() of part_030:64 runs; a handler *)
(* that called this Flush gets its result and returns it                    *)
GoFlushReturn(g) ==
    /\ Running
    /\ gos[g] # <<>>
    /\ Top(g).pc = "ret"
    /\ bmu' = MutexUnlock(bmu)
    /\ LET n == Len(gos[g])
           r == Top(g).result
       IN /\ gos' = [gos EXCEPT ![g] =
                        IF n = 1 THEN <<>>
                        ELSE [SubSeq(@, 1, n - 1) EXCEPT ![n - 1].pc = "relock",
                                                         ![n - 1].herr = r]]
    /\ UNCHANGED <<busVars, txVars, regVars, readVars, resVars, ordVars, ebVars>>

(* a handler that panics: Flush is left through its deferred call *)
GoHandlePanic(g) ==
    /\ Running
    /\ gos[g] # <<>>
    /\ Top(g).pc = "handler"
    /\ Top(g).handlers[Top(g).hidx].kind = "panic"
    /\ gos' = [gos EXCEPT ![g][Len(gos[g])].pc = "unwind"]
    /\ trace' = Append(trace, [op |-> "call", g |-> g, ev |-> Top(g).event.seq,
                               h |-> Top(g).hidx, level |-> Len(gos[g])])
    /\ UNCHANGED <<registry, phase, cfgDepth, maxDepth, pending, depth, cur, curHandlers, hidx,
                   flushPc, flushResult, herr, flushNo, flushStart, nextSeq>>
    /\ UNCHANGED <<txVars, regVars, readVars, resVars, bmu, ordVars, ebVars>>

(* the panic leaves Flush: the deferred b.mu.Unlock() runs, and the panic   *)
(* goes on into the handler that called this Flush, if one did              *)
GoUnwind(g) ==
    /\ Running
    /\ gos[g] # <<>>
    /\ Top(g).pc = "unwind"
    /\ bmu' = MutexUnlock(bmu)
    /\ LET n == Len(gos[g]) IN
       gos' = [gos EXCEPT ![g] =
                  IF n = 1 THEN <<>>
                  ELSE [SubSeq(@, 1, n - 1) EXCEPT ![n - 1].pc = "unwind"]]
    /\ UNCHANGED <<busVars, txVars, regVars, readVars, resVars, ordVars, ebVars>>

NextDispatch ==
    \/ \E h \in DispatchHandlers : Subscribe(UserDeletedEventType, h, MaxDispSubs)
    \/ \E d \in 0..MaxCfgDepth : Construct(d)
    \/ \E g \in Goroutines : GoPublish(g, UserDeletedEventType)
    \/ \E g \in Goroutines : GoFlushCall(g)
    \/ \E g \in Goroutines : GoFlushLock(g)
    \/ \E g \in Goroutines : GoFlushLoop(g)
    \/ \E g \in Goroutines : GoFlushRange(g)
    \/ \E g \in Goroutines : GoHandle(g)
    \/ \E g \in Goroutines : GoHandleFlush(g)
    \/ \E g \in Goroutines : GoFlushRelock(g)
    \/ \E g \in Goroutines : GoFlushReturn(g)

SpecDispatch == InitBus /\ [][NextDispatch]_vars

(* the same with handlers that panic among the subscribed ones *)
NextDispatchPanic ==
    \/ \E h \in {NoopHandler, PanicHandler} : Subscribe(UserDeletedEventType, h, MaxDispSubs)
    \/ \E d \in 0..MaxCfgDepth : Construct(d)
    \/ \E g \in Goroutines : GoPublish(g, UserDeletedEventType)
    \/ \E g \in Goroutines : GoFlushCall(g)
    \/ \E g \in Goroutines : GoFlushLock(g)
    \/ \E g \in Goroutines : GoFlushLoop(g)
    \/ \E g \in Goroutines : GoFlushRange(g)
    \/ \E g \in Goroutines : GoHandle(g)
    \/ \E g \in Goroutines : GoFlushRelock(g)
    \/ \E g \in Goroutines : GoFlushReturn(g)
    \/ \E g \in Goroutines : GoHandlePanic(g)
    \/ \E g \in Goroutines : GoUnwind(g)

SpecDispatchPanic == InitBus /\ [][NextDispatchPanic]_vars


(* ============================ properties ============================== *)
Calls == {i \in DOMAIN trace : trace[i].op = "call"}
Takes == {i \in DOMAIN trace : trace[i].op = "take"}
PubSeqs(i) == {trace[i].pubs[k].seq : k \in DOMAIN trace[i].pubs}
PublishedDuring(f) == UNION {PubSeqs(i) : i \in {c \in Calls : trace[c].f = f}}
FailedIn(f) == \E i \in Calls : trace[i].f = f /\ trace[i].err
Subscribed(h) == \E k \in DOMAIN registry[UserDeletedEventType] :
                    registry[UserDeletedEventType][k] = h
Cancellable(database) == {o \in OrderIds : /\ database.orders[o].owner = CmdUserID
                                            /\ database.orders[o].status \in {StatusDraft, StatusPending}}
CancellableOrders(database) ==
    {o \in DOMAIN database.orders : /\ database.orders[o].owner = CmdUserID
                                    /\ database.orders[o].status \in {StatusDraft, StatusPending}}
DeleteRan == execResult.done /\ attempt >= 1
LateSubs == {i \in DOMAIN trace : trace[i].op = "subscribe"}
TakeOf(c) == CHOOSE t \in Takes : t < c /\ trace[t].ev = trace[c].ev /\ trace[t].f = trace[c].f
Count(q, x) == Cardinality({i \in DOMAIN q : q[i] = x})
Drains == {i \in DOMAIN trace : trace[i].op = "drain"}
RECURSIVE AddedBetween(_, _)
AddedBetween(lo, hi) ==
    IF lo > hi THEN <<>>
    ELSE (IF trace[lo].op = "add" THEN trace[lo].events ELSE <<>>) \o AddedBetween(lo + 1, hi)
PrevDrain(i) == IF \E d \in Drains : d < i
                THEN CHOOSE d \in Drains : d < i /\ \A e \in Drains : e < i => e <= d
                ELSE 0
Retries == {i \in DOMAIN trace : trace[i].op = "retry"}
AttemptStarts == {i \in DOMAIN trace : trace[i].op = "attempt"}
LowerCase == {"u", "d", "e"}
UpperCase == {"U", "D"}
(* the format module.PastTenseVerb: ^[a-z]+\.[A-Z][a-zA-Z]+$ *)
MatchesEventTypeFormat(name) ==
    \E dot \in DOMAIN name :
        /\ name[dot] = "."
        /\ dot > 1 /\ \A i \in 1..dot - 1 : name[i] \in LowerCase
        /\ Len(name) >= dot + 2
        /\ name[dot + 1] \in UpperCase
        /\ \A i \in dot + 2..Len(name) : name[i] \in LowerCase \cup UpperCase
DepthExceededWrapped == Wrap("flushing events", ErrEventProcessingDepthExceeded)
Handles(c) ==
    {ReadWriteTxFromContext(c).tx, readOnlyTxFromContext(c).tx, TxFromContext(c).tx} \ {0}
InFn == cmdPc \in {"fn", "load", "delete", "save", "publish", "flush", "wait", "return",
                   "qfn", "qreturn"}
CarriesTx(c) == c.rw > 0 \/ c.ro > 0 \/ c.tx > 0

(* C1: when fn saved the aggregate, published its event and Flush ran into  *)
(* a handler that returned an error, Execute returns a non-nil error and a  *)
(* read in a new transaction sees the rows as they were before Execute.     *)
C1_RollbackOnHandlerError ==
    (DeleteRan /\ FailedIn(flushNo)) =>
        /\ execResult.err # Nil
        /\ UserFindByID(EmptyCtx, db, CmdUserID) = UserFindByID(EmptyCtx, db0, CmdUserID)
        /\ db = db0

C1_Witness ==
    /\ DeleteRan /\ FailedIn(flushNo)
    /\ db0.user = StatusActive
    /\ user.status = StatusDeleted
    /\ Subscribed(FailHandler)
    /\ execResult.err # Nil

(* C2: with an active user whose pending orders are cancelled by the        *)
(* UserDeleted handler, a failing Save of the second (in general the k-th)  *)
(* order makes Execute return an error and leaves the user and all orders   *)
(* as they were: nothing of the unit of work is committed.                  *)
C2_NothingCommittedOnSaveFailure ==
    (/\ DeleteRan
     /\ db0.user = StatusActive
     /\ Subscribed(UserDeletedHandler)
     /\ fault.orderSaveAt >= 1
     /\ Cardinality(Cancellable(db0)) >= fault.orderSaveAt) =>
        /\ execResult.err # Nil
        /\ db.user = StatusActive
        /\ \A o \in OrderIds : db.orders[o] = db0.orders[o]

C2_Witness ==
    /\ DeleteRan
    /\ db0.user = StatusActive
    /\ fault.orderSaveAt = 2
    /\ registry[UserDeletedEventType] = <<UserDeletedHandler>>
    /\ \A o \in {1, 2} : db0.orders[o] = [owner |-> CmdUserID, status |-> StatusPending]
    /\ orderSaves = 2
    /\ execResult.err = Wrap("flushing events",
                             WrapHandlerFailed(UserDeletedEventType,
                                               Wrap("saving canceled order", BufferWriteErr)))
    /\ db.user = StatusActive
    /\ \A o \in {1, 2} : db.orders[o].status = StatusPending

(* C3: with the UserDeleted handler subscribed, once Execute of the delete  *)
(* command returns nil the user is deleted and every order of that user     *)
(* that was draft or pending (both orders of the scenario) is cancelled.    *)
C3_DeleteCascades ==
    (DeleteRan /\ execResult.err = Nil /\ Subscribed(UserDeletedHandler)) =>
        /\ db.user = StatusDeleted
        /\ \A o \in Cancellable(db0) : db.orders[o].status = StatusCancelled

C3_Witness ==
    /\ DeleteRan /\ execResult.err = Nil
    /\ registry[UserDeletedEventType] = <<UserDeletedHandler>>
    /\ db0.user = StatusActive
    /\ \A o \in {1, 2} : db0.orders[o] = [owner |-> CmdUserID, status |-> StatusPending]
    /\ db.user = StatusDeleted
    /\ \A o \in {1, 2} : db.orders[o].status = StatusCancelled

(* C4: events are taken and delivered in publication order: everything      *)
(* done for an event published earlier precedes everything done for an      *)
(* event published later, whether published before or during the Flush.     *)
C4_FifoDelivery ==
    \A i \in DOMAIN trace : i > 1 => trace[i - 1].ev <= trace[i].ev

C4_Witness ==
    \E i, j, k \in Calls :
        /\ i < j /\ j < k
        /\ trace[i].ev < trace[j].ev /\ trace[j].ev < trace[k].ev
        /\ trace[i].f = flushNo /\ trace[j].f = flushNo /\ trace[k].f = flushNo
        /\ {trace[i].ev, trace[j].ev} \subseteq flushStart
        /\ trace[k].ev \in PublishedDuring(flushNo)

(* C5: when Flush returns nil the queue is empty, and every event that was  *)
(* pending when it was called or was published by a handler during it has   *)
(* been taken and handed to each of its handlers within that Flush call.    *)
C5_FlushExhaustive ==
    (flushPc = "done" /\ flushResult = Nil) =>
        /\ pending = <<>>
        /\ \A s \in flushStart \cup PublishedDuring(flushNo) :
              \E t \in Takes :
                  /\ trace[t].f = flushNo /\ trace[t].ev = s
                  /\ \A h \in 1..Len(HandlersFor(registry, trace[t].type)) :
                        \E c \in Calls : /\ trace[c].f = flushNo /\ trace[c].ev = s
                                          /\ trace[c].h = h /\ c > t

C5_Witness ==
    /\ flushPc = "done" /\ flushResult = Nil
    /\ Cardinality(flushStart) >= 2
    /\ PublishedDuring(flushNo) # {}
    /\ pending = <<>>

(* C6: a handler that publishes an event of the type it handles is invoked  *)
(* no more than maxDepth times in one Flush (10 when the configured maximum *)
(* is not positive), no more than maxDepth events are taken, and unless a   *)
(* handler fails that Flush returns ErrEventProcessingDepthExceeded.        *)
C6_SelfPublishingBounded ==
    LET lim == IF cfgDepth <= 0 THEN 10 ELSE cfgDepth IN
    \A f \in 1..flushNo :
        /\ Cardinality({t \in Takes : trace[t].f = f}) <= lim
        /\ \A ty \in EventTypes : \A h \in DOMAIN registry[ty] :
              registry[ty][h] = PubHandler(ty) =>
                /\ Cardinality({c \in Calls : trace[c].f = f /\ trace[c].type = ty
                                               /\ trace[c].h = h}) <= lim
                /\ (/\ f = flushNo /\ flushPc = "done" /\ ~FailedIn(f)
                     /\ \E c \in Calls : trace[c].f = f /\ trace[c].type = ty /\ trace[c].h = h)
                    => flushResult = ErrEventProcessingDepthExceeded

C6_Witness ==
    /\ cfgDepth = 0
    /\ flushPc = "done"
    /\ flushResult = ErrEventProcessingDepthExceeded
    /\ registry[UserDeletedEventType] = <<PubHandler(UserDeletedEventType)>>
    /\ Cardinality({c \in Calls : trace[c].f = flushNo}) = 10

(* C7 (as claimed): a Flush none of whose handlers publishes or fails        *)
(* delivers every event published before it and returns nil, however many.  *)
C7_DepthGuardIgnoresUnchained ==
    (flushPc = "done" /\ PublishedDuring(flushNo) = {} /\ ~FailedIn(flushNo)) =>
        /\ flushResult = Nil
        /\ pending = <<>>

(* C8: a handler error ends the Flush at once: nothing more is taken or     *)
(* invoked in that Flush and Flush returns the handler's error wrapped with *)
(* the event type.                                                          *)
C8_AbortOnHandlerError ==
    \A i \in Calls : trace[i].err =>
        /\ \A j \in DOMAIN trace : j > i => trace[j].f > trace[i].f
        /\ trace[i].f = flushNo =>
              /\ flushPc \in {"relock", "done", "idle"}
              /\ flushPc = "relock" => herr = HandlerErr
              /\ flushPc # "relock" =>
                    flushResult = WrapHandlerFailed(trace[i].type, HandlerErr)

C8_Witness ==
    /\ flushPc = "done"
    /\ \E i \in Calls : trace[i].err /\ trace[i].f = flushNo /\ i = Len(trace)
    /\ hidx < Len(curHandlers)
    /\ pending # <<>>
    /\ flushResult = WrapHandlerFailed(cur.type, HandlerErr)

(* C9 (as claimed): the handlers of an event a handler published run before *)
(* the next sibling handler of the publishing handler.                      *)
C9_DepthFirst ==
    \A i, j \in Calls :
        (i < j /\ trace[i].ev = trace[j].ev /\ trace[i].f = trace[j].f) =>
            \A k \in DOMAIN trace[i].pubs :
                \A h \in 1..Len(HandlersFor(registry, trace[i].pubs[k].type)) :
                    \E c \in Calls : /\ i < c /\ c < j
                                      /\ trace[c].ev = trace[i].pubs[k].seq
                                      /\ trace[c].h = h

(* C9 (amended): an event a handler publishes goes to the end of the queue: *)
(* it is taken only after the remaining sibling handlers of the publishing  *)
(* handler and after every event that was pending when it was published.    *)
C9_SiblingsBeforeChained ==
    LET takes == Takes IN
    \A i \in Calls : \A p \in PubSeqs(i) :
        LET tp == {t \in takes : trace[t].ev = p} IN
        tp # {} =>
            /\ \A j \in DOMAIN trace : trace[j].ev = trace[i].ev => \A t \in tp : j < t
            /\ \A t \in takes : trace[t].ev < p => \A t2 \in tp : t < t2
            /\ \A q \in DOMAIN pending : pending[q].seq >= p

C9_Witness ==
    \E i, j \in Calls : \E t \in Takes :
        /\ i < j /\ j < t
        /\ trace[i].ev = trace[j].ev /\ trace[i].f = trace[j].f
        /\ trace[t].ev \in PubSeqs(i)
        /\ \E u \in Takes : i < u /\ u < t /\ trace[u].ev # trace[i].ev

(* C10: embedding a transaction of either kind in a context that carries a  *)
(* transaction of either kind returns ErrNestedTransaction and a nil        *)
(* context, and the caller's context carries what it carried before.        *)
C10_NestedEmbeddingRejected ==
    \A n \in DOMAIN nested :
      (nested[n].kind \in {"rw", "ro"} /\ CarriesTx(nested[n].before)) =>
        /\ nested[n].err = ErrNestedTransaction
        /\ nested[n].returned = NilCtx
        /\ nested[n].callerCtx = nested[n].before

C10_Witness ==
    \E n \in DOMAIN nested :
        /\ nested[n].kind = "rw"
        /\ nested[n].before.ro > 0
        /\ nested[n].err = ErrNestedTransaction
        /\ ctx = nested[n].before

(* C11 (as claimed): Execute of any transaction scope, called with a        *)
(* context that carries a transaction, returns ErrNestedTransaction and     *)
(* does not invoke fn.                                                      *)
C11_NestedExecuteRejected ==
    \A n \in DOMAIN nested : CarriesTx(nested[n].before) =>
        /\ nested[n].result = ErrNestedTransaction
        /\ nested[n].fnCalls = 0

(* C12: every attempt of fn starts with an empty pending queue, and from    *)
(* the start of an attempt on its dispatcher holds and delivers only events *)
(* published in that attempt, none of an earlier, aborted one.              *)
C12_FreshDispatcherPerAttempt ==
    /\ cmdPc = "load" => pending = <<>>
    /\ \A i \in AttemptStarts :
          /\ \A j \in Takes \cup Calls : j > i => trace[j].ev >= trace[i].ev
          /\ (cmdPc # "fn" /\ \A k \in AttemptStarts : k <= i) =>
                \A q \in DOMAIN pending : pending[q].seq >= trace[i].ev

C12_Witness ==
    /\ attempt = 2
    /\ execResult.done /\ execResult.err = Nil
    /\ \E i \in Calls :
          /\ trace[i].f = 1
          /\ \E p \in PubSeqs(i) : ~\E t \in Takes : trace[t].ev = p
    /\ \E c \in Calls : trace[c].f = 1 /\ trace[c].err
    /\ Cardinality({t \in Takes : trace[t].f = 2}) >= 2

(* C13: a drain returns every event added since the previous drain, in the  *)
(* order added, and a drain that directly follows a drain returns the empty *)
(* list, however many events the first one returned.                        *)
C13_DrainTwice ==
    \A i \in Drains :
        /\ trace[i].events = AddedBetween(PrevDrain(i) + 1, i - 1)
        /\ (i > 1 /\ i - 1 \in Drains) => trace[i].events = <<>>

C13_Witness ==
    \E i \in Drains :
        /\ i - 1 \in Drains
        /\ Len(trace[i - 1].events) = MaxAggEvents
        /\ trace[i].events = <<>>
        /\ DomainEvents(user) = <<>>

(* C14: a Publish call of the application, made while no Flush runs or     *)
(* while a Flush has released the lock for a handler, appends its event at  *)
(* the end of the pending queue, returns nil and invokes no handler         *)
(* (nothing is taken or delivered by it); events are taken and handlers     *)
(* invoked only by steps of a running Flush.                                *)
C14_PublishOnlyAppends ==
    [][/\ (nextSeq' # nextSeq /\ flushPc' = flushPc) =>
            /\ Len(pending') = Len(pending) + 1
            /\ SubSeq(pending', 1, Len(pending)) = pending
            /\ pending'[Len(pending')].seq = nextSeq
            /\ fnErr' = Nil
            /\ trace' = trace
            /\ <<flushNo, flushResult, herr, depth, cur, hidx>>' =
                  <<flushNo, flushResult, herr, depth, cur, hidx>>
       /\ (trace' # trace) => flushPc \in {"loop", "handler", "handlerLocked"}]_vars

C14_Witness ==
    /\ flushNo = 0 /\ flushPc = "idle"
    /\ Len(pending) = 2 /\ nextSeq = 3
    /\ \A q \in DOMAIN pending : Len(HandlersFor(registry, pending[q].type)) >= 1
    /\ trace = <<>>
    /\ fnErr = Nil

(* C15: Flush never ends up waiting for its own lock: a handler that calls  *)
(* Publish on the bus that is flushing it returns, Flush goes on, and the   *)
(* events it published are at the end of the queue Flush is draining.       *)
C15_HandlerPublishNoDeadlock ==
    [][/\ flushPc' # "blocked"
       /\ (flushPc = "handler" /\ trace' # trace) =>
            LET e == trace'[Len(trace')] IN
            /\ flushPc' = "relock"
            /\ Len(pending') = Len(pending) + Len(e.pubs)
            /\ SubSeq(pending', 1, Len(pending)) = pending
            /\ \A k \in DOMAIN e.pubs : pending'[Len(pending) + k].seq = e.pubs[k].seq]_vars

C15_Witness ==
    /\ flushPc = "relock"
    /\ trace # <<>>
    /\ LET e == trace[Len(trace)] IN
         /\ e.op = "call" /\ e.f = flushNo /\ ~e.err
         /\ Len(e.pubs) = 1
         /\ Len(pending) >= 2
         /\ pending[Len(pending)].seq = e.pubs[1].seq

(* C16: a subscription goes to the end of the list of its event type, and  *)
(* the handlers of a delivered event are invoked one after the other right  *)
(* after the event is taken, the h-th invocation being that of the h-th     *)
(* handler subscribed for the event's type.                                 *)
C16_SubscriptionOrder ==
    /\ [](\A c \in Calls :
            /\ trace[c].h \in 1..Len(registry[trace[c].type])
            /\ trace[c].handler = registry[trace[c].type][trace[c].h]
            /\ c > 1 /\ trace[c - 1].ev = trace[c].ev /\ trace[c - 1].f = trace[c].f
            /\ IF trace[c].h = 1 THEN trace[c - 1].op = "take"
               ELSE trace[c - 1].op = "call" /\ trace[c - 1].h = trace[c].h - 1)
    /\ [][registry' # registry =>
            \E t \in EventTypes :
                /\ Len(registry'[t]) = Len(registry[t]) + 1
                /\ SubSeq(registry'[t], 1, Len(registry[t])) = registry[t]
                /\ \A u \in EventTypes \ {t} : registry'[u] = registry[u]]_vars

C16_Witness ==
    \E c \in Calls :
        /\ trace[c].h = 2
        /\ trace[c - 1].op = "call" /\ trace[c - 1].h = 1 /\ trace[c - 1].ev = trace[c].ev
        /\ trace[c].handler # trace[c - 1].handler
        /\ registry[trace[c].type] = <<trace[c - 1].handler, trace[c].handler>>

(* C17: the list Flush got from HandlersFor when it took an event keeps    *)
(* its length and elements while the registry grows: every invocation for   *)
(* the event is that of a handler of this list, at its position, and a      *)
(* handler subscribed during the delivery is not invoked for the event.     *)
C17_DefensiveCopy ==
    /\ \A c \in Calls :
          /\ \E t \in Takes : t < c /\ trace[t].ev = trace[c].ev /\ trace[t].f = trace[c].f
          /\ trace[c].h <= Len(trace[TakeOf(c)].handlers)
          /\ trace[c].handler = trace[TakeOf(c)].handlers[trace[c].h]
          /\ \A l \in LateSubs : (TakeOf(c) < l /\ l < c /\ trace[l].type = trace[c].type) =>
                trace[c].h < Len(registry[trace[c].type])
    /\ flushPc \in {"handlers", "handler", "relock"} =>
          \E t \in Takes : /\ trace[t].ev = cur.seq /\ trace[t].f = flushNo
                            /\ LoopHandlers(curHandlers, registry, cur.type) = trace[t].handlers

C17_Witness ==
    \E c \in Calls : \E l \in LateSubs :
        /\ TakeOf(c) < l /\ l < c
        /\ trace[l].type = trace[c].type
        /\ trace[c].h = Len(trace[TakeOf(c)].handlers)
        /\ Len(registry[trace[c].type]) = Len(trace[TakeOf(c)].handlers) + 1
        /\ flushPc = "done" /\ flushResult = Nil
        /\ Cardinality({d \in Calls : trace[d].ev = trace[c].ev}) = trace[c].h

(* C18: no subscription is lost or doubled when goroutines call Subscribe   *)
(* and HandlersFor at the same time: the registry holds the handler of      *)
(* every Subscribe call that has returned exactly once under its event      *)
(* type, and a HandlersFor call returns, each exactly once, the handlers of *)
(* its type whose Subscribe had returned when it was called, and nothing    *)
(* that was not subscribed for that type.                                   *)
C18_NoLostSubscription ==
    /\ \A p \in Returned : Count(HandlersFor(registry, procs[p].type), procs[p].handler) = 1
    /\ \A r \in DOMAIN procs :
          (procs[r].op = "HandlersFor" /\ procs[r].pc \in {"unlock", "done"}) =>
            /\ \A p \in procs[r].seen : procs[p].type = procs[r].type =>
                    Count(procs[r].result, procs[p].handler) = 1
            /\ \A i \in DOMAIN procs[r].result :
                    /\ Count(procs[r].result, procs[r].result[i]) = 1
                    /\ \E p \in DOMAIN procs : /\ procs[p].op = "Subscribe"
                                               /\ procs[p].type = procs[r].type
                                               /\ procs[p].handler = procs[r].result[i]

C18_Witness ==
    \E p, q, r \in DOMAIN procs :
        /\ p # q
        /\ procs[p].op = "Subscribe" /\ procs[q].op = "Subscribe"
        /\ procs[r].op = "HandlersFor" /\ procs[r].pc = "done"
        /\ procs[p].type = procs[r].type /\ procs[q].type = procs[r].type
        /\ procs[r].seen = {p, q}
        /\ Len(procs[r].result) = 2

(* C19: ReadTransactionFromContext returns the read-write transaction       *)
(* whenever the context carries one, also when it carries a read-only one   *)
(* too; otherwise the read-only transaction if the context carries one; and *)
(* it reports "not present" exactly when the context carries neither.       *)
C19_ReadAccessorOrder ==
    \A i \in DOMAIN reads : reads[i].op = "lookup" =>
        LET c == reads[i].ctx
            g == reads[i].got
        IN /\ c.rw > 0 => (g.ok /\ g.kind = "rw" /\ g.tx = c.rw)
           /\ (c.rw = 0 /\ c.ro > 0) => (g.ok /\ g.kind = "ro" /\ g.tx = c.ro)
           /\ (~g.ok) <=> (c.rw = 0 /\ c.ro = 0)

C19_Witness ==
    /\ \E i \in DOMAIN reads : /\ reads[i].op = "lookup"
                                /\ reads[i].ctx.rw > 0 /\ reads[i].ctx.ro > 0
                                /\ reads[i].got.kind = "rw"
    /\ \E i \in DOMAIN reads : /\ reads[i].op = "lookup"
                                /\ reads[i].ctx.rw = 0 /\ reads[i].ctx.ro > 0
                                /\ reads[i].got.kind = "ro"

(* C20: read-your-writes: a repository read made inside a read-write        *)
(* transaction after a Save in that transaction returns the saved value.    *)
C20_ReadYourWrites ==
    \A i \in DOMAIN reads :
        (reads[i].op = "find" /\ reads[i].ctx.rw > 0 /\ reads[i].buffered # <<>>) =>
            /\ reads[i].err = Nil
            /\ reads[i].got = reads[i].saved

(* C21 as stated: the transaction is committed only if the final invocation *)
(* of fn returned nil, and whenever an invocation of fn returned a non-nil  *)
(* error its writes do not become visible (the rows are as before Execute   *)
(* when the final invocation failed, and as long as Execute has not         *)
(* returned) and Execute returns a non-nil error.                           *)
C21_AnyFnErrorFailsExecute ==
    /\ (execResult.done /\ db # db0) => fnErr = Nil
    /\ (execResult.done /\ fnErr # Nil) => db = db0
    /\ ~execResult.done => db = db0
    /\ (execResult.done /\ (fnErr # Nil \/ \E i \in Retries : trace[i].fnErr # Nil)) =>
            execResult.err # Nil

(* C21: Execute maps the return value of the final invocation of fn to the  *)
(* outcome. The rows change only in the step that ends Execute after fn     *)
(* returned nil, which commits the buffered writes and returns nil; when    *)
(* the final invocation returned an error, Execute returns a non-nil error  *)
(* and the rows are as before Execute, and so they are whenever Execute     *)
(* returns an error, a failed commit included. An invocation whose error    *)
(* wraps the store's abort signal may be followed by another invocation,    *)
(* and its buffered writes are dropped.                                     *)
C21_FinalFnResultDecides ==
    /\ [](execResult.done => /\ fnErr # Nil => (execResult.err # Nil /\ db = db0)
                             /\ db # db0 => (fnErr = Nil /\ execResult.err = Nil)
                             /\ execResult.err # Nil => db = db0)
    /\ [](~execResult.done => db = db0)
    /\ [][/\ db' # db => (/\ cmdPc = "return" /\ fnErr = Nil
                          /\ execResult'.done /\ execResult'.err = Nil
                          /\ db' = ApplyAll(db, txBuf))
          /\ (cmdPc = "return" /\ cmdPc' = "fn") =>
                (/\ fnErr = Nil \/ IsAborted(fnErr)
                 /\ txBuf' = <<>> /\ db' = db /\ ~execResult'.done)]_vars

C21_Witness ==
    /\ execResult.done
    /\ execResult.err = Nil
    /\ db.user = StatusDeleted /\ db0.user = StatusActive
    /\ \E i \in Retries : trace[i].fnErr # Nil /\ trace[i].buffered # <<>>

(* C22 (as claimed): while Execute runs fn, the context carries exactly the  *)
(* handle that Execute embedded, and an Execute called by nested code       *)
(* leaves the handles as they are: the caller's context is unchanged, and   *)
(* if the nested fn is invoked at all, what it extracts from its context    *)
(* with any accessor is what the caller would extract.                      *)
C22_HandleOwnedByExecute ==
    /\ InFn => Cardinality(Handles(ctx)) = 1
    /\ \A n \in DOMAIN nested :
          /\ nested[n].callerCtx = nested[n].before
          /\ nested[n].fnCalls > 0 => Handles(nested[n].fnCtx) = Handles(nested[n].before)

(* C23: every read-only transaction opened by the read-only scope's Execute *)
(* is closed exactly once by the time Execute has returned, whether fn      *)
(* returned nil, fn returned an error or the embedding was rejected with    *)
(* ErrNestedTransaction, and it is not closed while fn is still running.    *)
C23_ReadOnlyTxClosedOnce ==
    \A i \in DOMAIN roTxs :
        /\ roTxs[i].returned => roTxs[i].closes = 1
        /\ ~roTxs[i].returned => (roTxs[i].closes = 0 /\ ctx.ro = roTxs[i].tx)

C23_Witness ==
    /\ \E i \in DOMAIN roTxs : /\ roTxs[i].returned /\ roTxs[i].err = ErrNestedTransaction
                                /\ roTxs[i].closes = 1
    /\ \E i \in DOMAIN roTxs : /\ roTxs[i].returned /\ roTxs[i].err = ErrUserNotFound
                                /\ roTxs[i].closes = 1

(* C24: when the Flush of the delete-user closure returns                   *)
(* ErrEventProcessingDepthExceeded, the closure returns that error wrapped, *)
(* the next step of Execute is the rollback, which drops the buffered       *)
(* writes and makes Execute return the wrapped error, and the rows are as   *)
(* they were before Execute.                                                *)
C24_DepthExceededRollsBack ==
    /\ []((execResult.done /\ execResult.err = DepthExceededWrapped) =>
            (db = db0 /\ txBuf = <<>>))
    /\ [][/\ (cmdPc = "wait" /\ flushPc = "done"
              /\ flushResult = ErrEventProcessingDepthExceeded) =>
                (fnErr' = DepthExceededWrapped /\ cmdPc' = "return")
          /\ (cmdPc = "return" /\ fnErr = DepthExceededWrapped) =>
                (/\ execResult'.done /\ execResult'.err = DepthExceededWrapped /\ execResult'.err # Nil
                 /\ db' = db /\ db' = db0 /\ txBuf' = <<>>)]_vars

C24_Witness ==
    /\ execResult.done
    /\ execResult.err = Wrap("flushing events", ErrEventProcessingDepthExceeded)
    /\ flushResult = ErrEventProcessingDepthExceeded
    /\ user.status = StatusDeleted
    /\ db0.user = StatusActive /\ db = db0
    /\ Cardinality({t \in Takes : trace[t].f = flushNo}) = CmdMaxDepth

(* C25 (as claimed): no event whose type does not match the format          *)
(* module.PastTenseVerb exists: neither among the events an aggregate       *)
(* holds nor among the events published to the bus.                         *)
C25_NoInvalidEventType ==
    /\ \A i \in DOMAIN user.domainEvents : MatchesEventTypeFormat(user.domainEvents[i].type)
    /\ \A i \in DOMAIN pending : MatchesEventTypeFormat(pending[i].type)

(* C26 (as claimed): the UserDeleted handler of the orders module, invoked  *)
(* with an event that is not a UserDeleted event, returns nil, so the Flush *)
(* that invoked it does not fail because of it, and it saves no order.      *)
C26_UnexpectedEventIsNoOp ==
    \A c \in Calls :
        (trace[c].handler = UserDeletedHandler /\ trace[c].type # UserDeletedEventType) =>
            /\ ~trace[c].err
            /\ (flushPc = "done" /\ trace[c].f = flushNo /\ c = Len(trace)) =>
                    flushResult = Nil

(* C27 (as claimed): once the UserDeleted handler has handled the event of  *)
(* the deleted user and returned nil, every order of that user that was     *)
(* draft or pending has been cancelled and saved, however many there are:   *)
(* its cancelling write is buffered in the transaction, and after the       *)
(* commit it is cancelled in the rows.                                      *)
C27_AllOrdersCancelled ==
    /\ \A c \in Calls :
          (/\ trace[c].handler = UserDeletedHandler /\ trace[c].type = UserDeletedEventType
           /\ ~trace[c].err /\ c = Len(trace) /\ cmdPc = "wait") =>
              \A o \in CancellableOrders(db0) :
                  \E i \in DOMAIN txBuf : txBuf[i] = OrderMutation(o, StatusCancelled)
    /\ (DeleteRan /\ execResult.err = Nil /\ Subscribed(UserDeletedHandler)) =>
          \A o \in CancellableOrders(db0) : db.orders[o].status = StatusCancelled

(* C28: ExecuteWithResult returns the error the scope's Execute returned,   *)
(* and as result the value the last invocation of fn returned, whether that *)
(* invocation returned an error or not and whether the scope then returned  *)
(* an error or not; if fn was never invoked the result is the zero value.   *)
C28_ResultOfLastInvocation ==
    withResult.pc = "done" =>
        /\ withResult.ret.err = withResult.scopeErr
        /\ withResult.calls > 0 => withResult.ret.result = withResult.lastValue
        /\ withResult.calls = 0 => withResult.ret.result = ZeroValue

C28_Witness ==
    /\ withResult.pc = "done"
    /\ withResult.calls = MaxFnCalls
    /\ withResult.lastErr = ErrFn
    /\ withResult.lastValue = 42
    /\ withResult.ret = [result |-> 42, err |-> ErrFn]

LoadFails == UserFindByID(ctx, db, CmdUserID).err # Nil

SaveFails == ~LoadFails /\ fault.userSave

UserWritten == \/ \E i \in DOMAIN txBuf : txBuf[i].table = "Users"
               \/ db.user # db0.user

(* C29: in the delete-user command each step runs only if the one before    *)
(* succeeded. When loading the user fails the command never reaches Save    *)
(* or Publish (no user mutation is written, no event is published); when    *)
(* Save fails it never reaches Publish; and Execute then returns the        *)
(* failing step's error wrapped by the command.                             *)
C29_StepsStopAtFirstFailure ==
    /\ [](LoadFails => /\ cmdPc \notin {"delete", "save", "publish", "flush", "wait"}
                       /\ ~UserWritten
                       /\ pending = <<>> /\ nextSeq = 1)
    /\ [](SaveFails => /\ cmdPc \notin {"publish", "flush", "wait"}
                       /\ ~UserWritten
                       /\ pending = <<>> /\ nextSeq = 1)
    /\ [][(cmdPc = "return" /\ cmdPc' = "done") =>
            /\ LoadFails =>
                 execResult'.err = Wrap("finding user", UserFindByID(ctx, db, CmdUserID).err)
            /\ SaveFails =>
                 execResult'.err = Wrap("saving user", UserSave(ctx, CmdUserID, user).err)]_vars

C29_Witness ==
    /\ cmdPc = "done"
    /\ fault.userSave
    /\ db0.user = StatusActive
    /\ execResult = [done |-> TRUE, err |-> Wrap("saving user", BufferWriteErr)]
    /\ ~UserWritten
    /\ nextSeq = 1

SavedUserStatus ==
    LET ms == {i \in DOMAIN txBuf : txBuf[i].table = "Users" /\ txBuf[i].key = CmdUserID}
    IN IF ms # {} THEN txBuf[CHOOSE i \in ms : \A j \in ms : j <= i].status
       ELSE db.user

(* C30: a delete-user command that succeeds has saved the user with status  *)
(* deleted and has published exactly one event, of type UserDeleted and     *)
(* carrying the ID of the deleted user: the user handed to Save is deleted  *)
(* and holds that one event, Publish enqueues exactly that event, and once  *)
(* Execute has returned nil the user's row is deleted.                      *)
C30_SuccessSavesDeletedAndPublishesOne ==
    /\ [](cmdPc = "save" =>
            /\ user.status = StatusDeleted
            /\ DomainEvents(user) = <<NewUserDeletedEvent(CmdUserID)>>)
    /\ [](cmdPc = "publish" =>
            /\ SavedUserStatus = StatusDeleted
            /\ DomainEvents(user) = <<NewUserDeletedEvent(CmdUserID)>>)
    /\ [](cmdPc \in {"flush", "wait"} => nextSeq >= 2)
    /\ [](DeleteRan /\ execResult.err = Nil => db.user = StatusDeleted)
    /\ [][(cmdPc = "publish" /\ cmdPc' # "publish") =>
            /\ cmdPc' = "flush"
            /\ nextSeq' = nextSeq + 1
            /\ Len(pending') = 1
            /\ pending'[1].type = UserDeletedEventType
            /\ pending'[1].userID = CmdUserID]_vars

C30_Witness ==
    /\ DeleteRan /\ execResult.err = Nil
    /\ attempt = 1
    /\ db0.user = StatusActive
    /\ db.user = StatusDeleted
    /\ nextSeq = 2
    /\ registry[UserDeletedEventType] = <<NoopHandler>>

PendingSeqs == {pending[k].seq : k \in DOMAIN pending}

TakenSeqs == {trace[i].ev : i \in Takes}

InFlush(g) == gos[g] # <<>>

(* C31: on one bus used through any sequence of Publish and Flush calls     *)
(* (a Flush after a failed one, a Flush called by a handler, Flush calls of *)
(* two goroutines at once) every published event is in the queue or has     *)
(* been taken from it, never both and never twice, and no handler of an     *)
(* event is invoked with it more than once, nor before it was taken.        *)
C31_EachEventOnce ==
    /\ \A i, j \in Takes : trace[i].ev = trace[j].ev => i = j
    /\ \A i, j \in Calls : (trace[i].ev = trace[j].ev /\ trace[i].h = trace[j].h) => i = j
    /\ PendingSeqs \cap TakenSeqs = {}
    /\ PendingSeqs \cup TakenSeqs = 1..(nextSeq - 1)
    /\ Cardinality(PendingSeqs) = Len(pending)
    /\ \A c \in Calls : \E t \in Takes : t < c /\ trace[t].ev = trace[c].ev

C31_Witness ==
    /\ InFlush(1) /\ InFlush(2)
    /\ Top(1).pc = "handler" /\ Top(2).pc = "handler"
    /\ Top(1).event.seq # Top(2).event.seq
    /\ TakenSeqs = {1, 2}
    /\ pending = <<>>

(* C32: every way out of Flush leaves b.mu unlocked and no Unlock is ever   *)
(* called on a mutex that is not locked (which the runtime answers with a   *)
(* fatal error), also when a handler panics.                                *)
C32_MutexBalanced ==
    /\ bmu # "fatal"
    /\ (\A g \in Goroutines : ~InFlush(g)) => bmu = "unlocked"

(* C33: the events processed on one bus, over all its Flush calls, never    *)
(* number more than maxDepth.                                               *)
C33_DepthBoundPerInstance ==
    phase = "run" => Cardinality(Takes) <= maxDepth

(* C34: a repository Save called with a context that carries a transaction, *)
(* read-write or read-only, writes nothing outside that transaction: no     *)
(* standalone write and no transaction of its own is committed.             *)
C34_SaveStaysInContextTx ==
    \A i \in DOMAIN reads :
        (reads[i].op = "save" /\ (reads[i].ctx.rw > 0 \/ reads[i].ctx.ro > 0)) =>
            reads[i].direct = <<>>

OrderWrites(ms) == {i \in DOMAIN ms : ms[i].table = "Orders"}

(* C35: handling a UserDeleted event writes nothing but cancellations of    *)
(* the deleted user's draft and pending orders: every mutation the handler  *)
(* adds is an order of that user that was draft or pending, set to          *)
(* cancelled; the user row, orders in any other status and orders of other  *)
(* users are neither saved nor changed, and nothing is published.           *)
C35_OnlyCancellableOrdersTouched ==
    /\ [](\A i \in OrderWrites(txBuf) :
             /\ txBuf[i].key \in Cancellable(db0)
             /\ txBuf[i].status = StatusCancelled)
    /\ [](\A o \in OrderIds \ Cancellable(db0) : db.orders[o] = db0.orders[o])
    /\ [][(flushPc = "handler" /\ trace' # trace
            /\ trace'[Len(trace')].handler = UserDeletedHandler) =>
            /\ Len(txBuf') >= Len(txBuf)
            /\ SubSeq(txBuf', 1, Len(txBuf)) = txBuf
            /\ \A i \in (Len(txBuf) + 1)..Len(txBuf') :
                  /\ txBuf'[i].table = "Orders"
                  /\ txBuf'[i].key \in Cancellable(db)
                  /\ txBuf'[i].status = StatusCancelled
            /\ db' = db
            /\ pending' = pending]_vars

C35_Witness ==
    /\ DeleteRan /\ execResult.err = Nil
    /\ registry[UserDeletedEventType] = <<UserDeletedHandler>>
    /\ db0.orders[1] = [owner |-> CmdUserID, status |-> StatusPending]
    /\ db0.orders[2] = [owner |-> CmdUserID, status |-> StatusConfirmed]
    /\ db.orders[1].status = StatusCancelled
    /\ db.orders[2] = db0.orders[2]

StatusMethods == {"Submit", "Confirm", "Cancel", "Complete"}

AllowedMoves ==
    {<<StatusDraft, "Submit", StatusPending>>,
     <<StatusPending, "Confirm", StatusConfirmed>>,
     <<StatusConfirmed, "Complete", StatusCompleted>>,
     <<StatusDraft, "Cancel", StatusCancelled>>,
     <<StatusPending, "Cancel", StatusCancelled>>,
     <<StatusConfirmed, "Cancel", StatusCancelled>>}

(* C36: a method call on an Order changes its status only along draft to    *)
(* pending (Submit, with at least one item), pending to confirmed (Confirm), *)
(* confirmed to completed (Complete), or draft, pending or confirmed to      *)
(* cancelled (Cancel); cancelled and completed are never left; a call that   *)
(* returns an error leaves the status as it was, and a status method that    *)
(* does not move the status returns an error.                                *)
C36_OrderStatusMachine ==
    [][order' # order =>
        /\ order'.status # order.status =>
              /\ <<order.status, order'.op, order'.status>> \in AllowedMoves
              /\ order'.err = Nil
              /\ order'.op = "Submit" => Len(order.items) > 0
        /\ order.status \in {StatusCancelled, StatusCompleted} =>
              order'.status = order.status
        /\ order'.err # Nil => (order'.status = order.status /\ order'.items = order.items)
        /\ (order'.op \in StatusMethods /\ order'.status = order.status) =>
              order'.err # Nil]_vars

C36_Witness ==
    /\ order.status = StatusCompleted
    /\ order.op = "Cancel"
    /\ order.err = ErrOrderCompleted

(* C37: deleting a user whose row is already deleted raises and publishes   *)
(* no UserDeleted event: the aggregate holds none, none is pending and none *)
(* has been published, so the handlers of UserDeleted are not run again.    *)
C37_NoEventForDeletedUser ==
    db0.user = StatusDeleted =>
        /\ DomainEvents(user) = <<>>
        /\ pending = <<>>
        /\ nextSeq = 1
        /\ Takes = {}

(* errors.Is(err, target): err or an error it wraps is target *)
RECURSIVE ErrorsIs(_, _)
ErrorsIs(err, target) ==
    IF err = target THEN TRUE
    ELSE IF err.kind \in {"wrapped", "handlerFailed"} THEN ErrorsIs(err.cause, target)
    ELSE FALSE

RECURSIVE RootCause(_)
RootCause(err) ==
    IF err.kind \in {"wrapped", "handlerFailed"} THEN RootCause(err.cause) ELSE err

(* the error comes from the depth guard of the bus *)
FromDepthGuard(err) == RootCause(err).kind \in {"depthExceeded", "errorsNew"}

(* C38: when Publish of the dispatch-on-Publish EventBus fails because the  *)
(* handler-triggered Publish calls nest deeper than the limit, the error it *)
(* returns is ErrEventProcessingDepthExceeded for errors.Is.                *)
C38_DepthErrorIsSentinel ==
    \A c \in DOMAIN eb.calls :
        (eb.calls[c].returned /\ FromDepthGuard(eb.calls[c].result)) =>
            ErrorsIs(eb.calls[c].result, ErrEventProcessingDepthExceeded)

====
